---- MODULE Spec2Model ----
(***************************************************************************)
(* A model of BleachLua's LuaVar handle (reference-counted registry        *)
(* references), of the Lua registry / operand stack it manipulates, and of *)
(* the LuaFunction call wrapper.                                           *)
(***************************************************************************)
EXTENDS Integers, Sequences, FiniteSets, TLC

\* ------------------------------------------------------------------ bounds
NumHandles == 3      \* LuaVar objects the application can have at once
MaxStack   == 2      \* operand stack depth the application builds up itself
MaxSlots   == 7      \* registry slots available to luaL_ref
MaxBlocks  == 7      \* RefCount blocks the allocator can hand out
MaxCount   == 4      \* largest m_refCount a copy may start from
MaxOverwrites == 1   \* SetX calls on a handle that already holds a reference
MaxCallObjects == 2  \* handles and wrappers alive at once while calls are made
MaxTableObjects == 2 \* handles alive at once while tables are read
MaxTableStack == 1   \* values the script leaves on the stack while tables are read
MaxTableSlots == 4   \* registry slots and blocks in use while one table is read
MaxCompareObjects == 2 \* handles alive at once while handles are compared
MaxHeap    == 3      \* tables made at run time, the globals table included
MaxCreated == 1      \* CreateNewTable calls while fields are written
MaxFieldStack == 1   \* values the application leaves on the stack while fields are written
MaxFieldObjects == 1 \* handles alive at once while fields are written
MaxArray   == 1      \* longest array part Insert builds
IntBits    == 4      \* width of lua_Integer and of the widest native integer
MaxDepth   == 2      \* native functions that call back into the script, one in the other
BlockBase  == 8      \* addresses from here on are blocks made by lua_newuserdata

Handles == 1 .. NumHandles
Slots   == 1 .. MaxSlots
Blocks  == 1 .. MaxBlocks

\* ------------------------------------------------------- program constants
LUA_REFNIL      == -1     \* "no registry slot"
NullPtr         == 0      \* nullptr (RefCount*, LuaState*, const char*, void*)
DefaultLuaState == 1      \* s_pDefaultLuaState once SetDefaultLuaState ran

\* ------------------------------------------------------------- Lua values
Nil        == [t |-> "nil",  v |-> 0]
LBool(b)   == [t |-> "bool", v |-> b]      \* 0 = false, 1 = true
LInt(n)    == [t |-> "int",  v |-> n]
LStr(s)    == [t |-> "str",  v |-> s]      \* s identifies the string's text
LPtr(p)    == [t |-> "lud",  v |-> p]      \* light userdata
LFn(f)     == [t |-> "fn",   v |-> f]      \* a script function
LTable     == [t |-> "table", v |-> 0]     \* a table
LTab(id)   == [t |-> "table", v |-> id]    \* the table whose content is TableDef(id)
LUd(p)     == [t |-> "ud",   v |-> p]      \* full userdata, its block at address p
ExHandler  == [t |-> "cfn",  v |-> 0]      \* &BaseLuaFunction::OnLuaException
Unused     == [t |-> "none", v |-> 0]      \* registry index never used
FreeSlot(n) == [t |-> "free", v |-> n]     \* released slot, links to next free

\* native (C++) values handed to SetX / returned by GetX
NBool(b) == [k |-> "bool", v |-> b]
NInt(n)  == [k |-> "int",  v |-> n]
NStr(s)  == [k |-> "str",  v |-> s]        \* v = NullPtr is a null const char*
NPtr(p)  == [k |-> "ptr",  v |-> p]        \* v = NullPtr is a null void*

\* what the application pushes on the operand stack by itself
PushVals == {Nil, LInt(7)}
\* what a script leaves on the stack for the application: values and functions
ScriptVals == {Nil, LInt(7), LFn(1), LFn(2), LFn(3)}
\* argument lists of the calls with arguments
ArgLists == {<<NInt(7)>>, <<NStr(NullPtr), NInt(7)>>}
\* LuaFunction<RetType> instantiations
RetTypes == {"void", "int", "bool", "str"}
\* what an undefined operation turns out to do
UBOutcomes == {"crash", "survive"}
\* what the application passes to SetBool/SetInteger/SetString/SetLightUserData
SetArgs  == {NInt(7), NStr(NullPtr)}

VARIABLES
    alive,        \* alive[h]: the LuaVar object h is constructed
    m_pState,     \* LuaVar::m_pState
    m_reference,  \* LuaVar::m_reference
    m_pRefCount,  \* LuaVar::m_pRefCount (block id, NullPtr = nullptr)
    m_refCount,   \* RefCount::m_refCount of each block
    allocated,    \* RefCount blocks between new and delete
    freeBlocks,   \* the allocator's list of deleted blocks, last deleted first
    registry,     \* LUA_REGISTRYINDEX table, integer keys
    freeHead,     \* registry[0]: head of luaL_ref's free list
    stack,        \* the operand stack, bottom first
    aborted,      \* the process died (failed assert, crash)
    misuse,       \* a slot or block was released twice / used after release
    debugBuild,   \* LUA_ASSERT is assert() (no NDEBUG)
    overwrites,   \* SetX calls made so far on a handle holding a reference
    retType,      \* retType[h]: h is the m_functionVar of a LuaFunction<retType[h]>
    iter,         \* the TableIterator object the application holds
    inner,        \* a second TableIterator: a nested loop's, or the other side of a move
    heap,         \* the tables made at run time: heap[1] is the globals table
    last          \* the operation just executed and the situation it found

vars == <<alive, m_pState, m_reference, m_pRefCount, m_refCount, allocated, freeBlocks,
          registry, freeHead, stack, aborted, misuse, debugBuild, overwrites, retType,
          iter, inner, heap, last>>

\* the program state as one record, so that operations compose
World == [alive |-> alive, st |-> m_pState, ref |-> m_reference,
          prc |-> m_pRefCount, cnt |-> m_refCount, live |-> allocated,
          freeBlocks |-> freeBlocks,
          reg |-> registry, freeHead |-> freeHead, stack |-> stack,
          aborted |-> aborted, misuse |-> misuse, debug |-> debugBuild,
          heap |-> heap]

Commit(w) ==
    /\ alive' = w.alive
    /\ m_pState' = w.st
    /\ m_reference' = w.ref
    /\ m_pRefCount' = w.prc
    /\ m_refCount' = w.cnt
    /\ allocated' = w.live
    /\ freeBlocks' = w.freeBlocks
    /\ registry' = w.reg
    /\ freeHead' = w.freeHead
    /\ stack' = w.stack
    /\ aborted' = w.aborted
    /\ misuse' = w.misuse
    /\ debugBuild' = w.debug
    /\ heap' = w.heap

\* ------------------------------------------------------ operand stack, registry
\* F applied to the value of x, which is computed once
Once(x, F(_)) == CHOOSE r \in {F(v) : v \in {x}} : TRUE

Top(s)  == s[Len(s)]
Pop(s, n) == SubSeq(s, 1, Len(s) - n)

RegLen(w) ==
    LET used == {s \in Slots : w.reg[s].t # "none"}
    IN IF used = {} THEN 0 ELSE CHOOSE m \in used : \A s \in used : s <= m

\* luaL_ref can hand out a slot without outgrowing the modelled registry
RefRoom(w) == w.freeHead # 0 \/ RegLen(w) < MaxSlots

\* luaL_ref(L, LUA_REGISTRYINDEX): pops the top value; nil yields LUA_REFNIL
luaL_ref(w) ==
    LET top == Top(w.stack)
        ref == IF w.freeHead # 0 THEN w.freeHead ELSE RegLen(w) + 1
    IN IF top.t = "nil"
       THEN [w |-> [w EXCEPT !.stack = Pop(w.stack, 1)], ref |-> LUA_REFNIL]
       ELSE [w |-> [w EXCEPT !.stack = Pop(w.stack, 1),
                             !.reg[ref] = top,
                             !.freeHead = IF w.freeHead # 0
                                          THEN w.reg[w.freeHead].v ELSE 0],
             ref |-> ref]

\* luaL_unref(L, LUA_REGISTRYINDEX, ref)
luaL_unref(w, ref) ==
    IF ref >= 0
    THEN [w EXCEPT !.reg[ref] = FreeSlot(w.freeHead),
                   !.freeHead = ref,
                   !.misuse = w.misuse \/ w.reg[ref].t \in {"free", "none"}]
    ELSE w

\* ---------------------------------------------------------------- RefCount
\* the allocator reuses the block deleted last, else takes fresh memory
NewRoom(w) == w.freeBlocks # <<>> \/ Cardinality(w.live) < MaxBlocks

\* BLEACHLUA_NEW(_Internal::RefCount): m_refCount starts at one
NewRefCount(w) ==
    LET b == IF w.freeBlocks # <<>> THEN Head(w.freeBlocks)
             ELSE Cardinality(w.live) + 1
    IN [w |-> [w EXCEPT !.live = w.live \cup {b}, !.cnt[b] = 1,
                        !.freeBlocks = IF w.freeBlocks # <<>>
                                       THEN Tail(w.freeBlocks) ELSE <<>>],
        block |-> b]

Increment(w, b) ==
    [w EXCEPT !.cnt[b] = w.cnt[b] + 1,
              !.misuse = w.misuse \/ b \notin w.live]

\* Decrement returns (m_refCount == 0).  A size_t that wraps below zero is a
\* huge non-zero number; -1 stands for it.
Decrement(w, b) ==
    LET c == IF w.debug
             THEN (IF w.cnt[b] > 0 THEN w.cnt[b] - 1 ELSE w.cnt[b])
             ELSE w.cnt[b] - 1
    IN [w |-> [w EXCEPT !.cnt[b] = c,
                        !.misuse = w.misuse \/ b \notin w.live],
        zero |-> (c = 0)]

\* BLEACHLUA_DELETE(m_pRefCount)
DeleteRefCount(w, b) ==
    [w EXCEPT !.live = w.live \ {b},
              !.cnt[b] = 0,
              !.freeBlocks = IF b \in w.live THEN <<b>> \o w.freeBlocks
                             ELSE w.freeBlocks,
              !.misuse = w.misuse \/ b \notin w.live]

\* a failed LUA_ASSERT or a null dereference ends the process
Abort(w) == [w EXCEPT !.aborted = TRUE]

\* ------------------------------------------------------------------ LuaVar
IsNil(w, h)   == w.ref[h] = LUA_REFNIL
IsValid(w, h) == w.st[h] # NullPtr /\ w.ref[h] # LUA_REFNIL

\* a ClearRef that forgets the handle's fields but never gives the slot back
ClearRef_NoUnref(w, h) ==
    IF w.ref[h] # LUA_REFNIL /\ w.prc[h] # NullPtr
    THEN [Decrement(w, w.prc[h]).w EXCEPT !.ref[h] = LUA_REFNIL, !.prc[h] = NullPtr]
    ELSE w

ClearRef(w, h) ==
    IF w.ref[h] # LUA_REFNIL
    THEN IF w.prc[h] = NullPtr
         THEN Abort(w)
         ELSE LET d  == Decrement(w, w.prc[h])
                  w1 == IF d.zero
                        THEN DeleteRefCount(luaL_unref(d.w, w.ref[h]), w.prc[h])
                        ELSE d.w
              IN [w1 EXCEPT !.ref[h] = LUA_REFNIL, !.prc[h] = NullPtr]
    ELSE w

\* LuaVar::LuaVar(LuaState*) and LuaVar::LuaVar()
Construct(w, h, pState) ==
    [w EXCEPT !.alive[h] = TRUE, !.st[h] = pState,
              !.ref[h] = LUA_REFNIL, !.prc[h] = NullPtr]

\* ~LuaVar(); the dead object's fields are no longer observable
Destruct(w, h) ==
    LET w1 == ClearRef(w, h)
    IN IF w1.aborted THEN w1
       ELSE [w1 EXCEPT !.alive[h] = FALSE, !.st[h] = NullPtr,
                       !.ref[h] = LUA_REFNIL, !.prc[h] = NullPtr]

\* a CreateRegisteryEntryFromStack that allocates the count whatever luaL_ref
\* returned
CreateRegisteryEntryFromStack_AlwaysCount(w, h) ==
    LET r == luaL_ref(w)
        n == NewRefCount([r.w EXCEPT !.ref[h] = r.ref])
    IN [n.w EXCEPT !.prc[h] = n.block]

\* CreateRegisteryEntryFromStack: the two LUA_ASSERTs only exist in a debug
\* build; a release build overwrites whatever the handle held.
CreateRegisteryEntryFromStack(w, h) ==
    IF w.debug /\ (w.prc[h] # NullPtr \/ w.ref[h] # LUA_REFNIL)
    THEN Abort(w)
    ELSE LET r  == luaL_ref(w)
             w1 == [r.w EXCEPT !.ref[h] = r.ref]
         IN IF r.ref # LUA_REFNIL
            THEN LET n == NewRefCount(w1)
                 IN [n.w EXCEPT !.prc[h] = n.block]
            ELSE w1

\* a Copy that shares the fields but forgets to count the new holder
Copy_NoIncrement(w, h, right) ==
    LET w1 == ClearRef(w, h)
    IN IF w1.aborted THEN w1
       ELSE [w1 EXCEPT !.st[h] = w1.st[right],
                       !.ref[h] = w1.ref[right],
                       !.prc[h] = w1.prc[right]]

\* a Copy that does not release what the left side held
Copy_NoClearRef(w, h, right) ==
    LET w2 == [w EXCEPT !.st[h] = w.st[right],
                        !.ref[h] = w.ref[right],
                        !.prc[h] = w.prc[right]]
    IN IF w2.prc[h] # NullPtr THEN Increment(w2, w2.prc[h]) ELSE w2

\* a Move that does not release what the left side held
Move_NoClearRef(w, h, right) ==
    [w EXCEPT !.st[h] = w.st[right],
              !.ref[h] = w.ref[right],
              !.prc[h] = w.prc[right],
              !.st[right] = NullPtr,
              !.ref[right] = LUA_REFNIL,
              !.prc[right] = NullPtr]

Copy(w, h, right) ==
    LET w1 == ClearRef(w, h)
        w2 == [w1 EXCEPT !.st[h] = w1.st[right],
                         !.ref[h] = w1.ref[right],
                         !.prc[h] = w1.prc[right]]
    IN IF w1.aborted THEN w1
       ELSE IF w2.prc[h] # NullPtr THEN Increment(w2, w2.prc[h]) ELSE w2

Move(w, h, right) ==
    LET w1 == ClearRef(w, h)
    IN IF w1.aborted THEN w1
       ELSE [w1 EXCEPT !.st[h] = w1.st[right],
                       !.ref[h] = w1.ref[right],
                       !.prc[h] = w1.prc[right],
                       !.st[right] = NullPtr,
                       !.ref[right] = LUA_REFNIL,
                       !.prc[right] = NullPtr]

\* StackHelpers::Push<Type>: lua_pushstring(L, NULL) pushes nil, while
\* lua_pushlightuserdata(L, NULL) pushes a (non-nil) light userdata
ToLua(nv) ==
    CASE nv.k = "bool" -> LBool(nv.v)
      [] nv.k = "int"  -> LInt(nv.v)
      [] nv.k = "str"  -> IF nv.v = NullPtr THEN Nil ELSE LStr(nv.v)
      [] nv.k = "ptr"  -> LPtr(nv.v)

Push(w, nv) == [w EXCEPT !.stack = Append(w.stack, ToLua(nv))]

\* LuaVar::SetValue<Type>: LUA_ASSERT(m_pState), Push, CreateRegisteryEntryFromStack
SetValue(w, h, nv) ==
    IF w.st[h] = NullPtr
    THEN Abort(w)
    ELSE CreateRegisteryEntryFromStack(Push(w, nv), h)

\* LuaVar::SetValue<nullptr_t>
SetValueNil(w, h) == ClearRef(w, h)

\* ------------------------------------------------------------ StackHelpers
NoRet == [k |-> "none", v |-> 0]           \* a void return

\* the text of a number, and a message with the traceback appended
NumText(n)   == 100 + n
TraceText(s) == 200 + s

\* lua_tostring: the text of a string or number, NULL for anything else
lua_tostring(v) ==
    IF v.t = "str" THEN v.v
    ELSE IF v.t = "int" THEN NumText(v.v)
    ELSE NullPtr

\* lua_tointegerx: integers, and strings holding a number's text, convert
lua_tointegerx(v) ==
    IF v.t = "int" THEN [success |-> TRUE, n |-> v.v]
    ELSE IF v.t = "str" /\ v.v >= NumText(0) /\ v.v < TraceText(0)
         THEN [success |-> TRUE, n |-> v.v - NumText(0)]
    ELSE [success |-> FALSE, n |-> 0]

lua_toboolean(v) == IF v.t = "nil" \/ v = LBool(0) THEN 0 ELSE 1

lua_settop(w, n) ==
    [w EXCEPT !.stack = [i \in 1 .. n |-> IF i <= Len(w.stack) THEN w.stack[i] ELSE Nil]]

\* lua_isuserdata: full and light userdata alike
lua_isuserdata(v) == v.t \in {"ud", "lud"}

\* lua_touserdata: the block address of a full userdata, the pointer of a
\* light one
lua_touserdata(v) == IF lua_isuserdata(v) THEN v.v ELSE NullPtr

\* the native integer types: lua_Integer is signed, lua_Unsigned has the
\* same width
IntTypes == {"lua_Integer", "lua_Unsigned"}
IntRange(T) ==
    IF T = "lua_Unsigned" THEN 0 .. 2^IntBits - 1
    ELSE -(2^(IntBits - 1)) .. 2^(IntBits - 1) - 1

\* a cast that saturates instead of wrapping
static_cast_Saturate(T, n) ==
    IF T = "lua_Unsigned" THEN (IF n < 0 THEN 0 ELSE n)
    ELSE IF n > 2^(IntBits - 1) - 1 THEN 2^(IntBits - 1) - 1 ELSE n

\* static_cast<T>(n) between integer types: n modulo 2^IntBits
static_cast(T, n) ==
    IF T = "lua_Unsigned" THEN n % 2^IntBits
    ELSE ((n + 2^(IntBits - 1)) % 2^IntBits) - 2^(IntBits - 1)

\* StackHelpers::GetDefault<Type>()
GetDefault(R) ==
    CASE R = "bool" -> NBool(0)
      [] R = "int"  -> NInt(0)
      [] R = "str"  -> NStr(NullPtr)
      [] R = "ptr"  -> NPtr(NullPtr)
      [] R = "void" -> NoRet

\* StackHelpers::Get<Type>(pState) on a value v at index -1: the native value,
\* the value left in the stack slot (lua_tostring turns a number into its
\* text in place) and the diagnostics written
GetOf(R, v) ==
    CASE R = "bool" -> [ret |-> NBool(lua_toboolean(v)), left |-> v, diag |-> 0]
      [] R = "int"  -> IF lua_tointegerx(v).success
                       THEN [ret |-> NInt(lua_tointegerx(v).n), left |-> v, diag |-> 0]
                       ELSE [ret |-> GetDefault(R), left |-> v, diag |-> 1]
      [] R = "str"  -> [ret |-> NStr(lua_tostring(v)),
                        left |-> IF v.t = "int" THEN LStr(NumText(v.v)) ELSE v,
                        diag |-> 0]
      [] R = "ptr"  -> [ret |-> NPtr(lua_touserdata(v)), left |-> v, diag |-> 0]

\* StackHelpers::Get<Type>(pState).  Index -1 of an empty stack is not an
\* acceptable index: the read lands below the stack (ub says how it ends).
Get(w, R, ub) ==
    IF w.stack = <<>>
    THEN IF ub = "crash"
         THEN [w |-> Abort(w), ret |-> NoRet, diag |-> 0]
         ELSE [w |-> w, ret |-> GetOf(R, Nil).ret, diag |-> GetOf(R, Nil).diag]
    ELSE LET g == GetOf(R, Top(w.stack))
         IN [w |-> [w EXCEPT !.stack[Len(w.stack)] = g.left],
             ret |-> g.ret, diag |-> g.diag]

\* ------------------------------------------------------------- LuaFunction
\* the script functions: 1 is "return ..." (all its arguments), 2 raises a
\* string (error("text")), 3 raises a table (error({})), 4 returns 7, 5 calls
\* bound native functions (see Script) and returns nothing
FnBody(f, args) ==
    CASE f = 1 -> [kind |-> "return", vals |-> args, val |-> Nil]
      [] f = 2 -> [kind |-> "error", vals |-> <<>>, val |-> LStr(1)]
      [] f = 3 -> [kind |-> "error", vals |-> <<>>, val |-> LTable]
      [] f = 4 -> [kind |-> "return", vals |-> <<LInt(7)>>, val |-> Nil]
      [] f = 5 -> [kind |-> "return", vals |-> <<>>, val |-> Nil]

\* BaseLuaFunction::OnLuaException, the message handler: appending the NULL
\* that lua_tostring returns for a non-string error is undefined
OnLuaException(err, ub) ==
    IF lua_tostring(err) = NullPtr
    THEN IF ub = "crash"
         THEN [crash |-> TRUE, msg |-> Nil]
         ELSE [crash |-> FALSE, msg |-> LStr(TraceText(0))]
    ELSE [crash |-> FALSE, msg |-> LStr(TraceText(lua_tostring(err)))]

\* an offset that designates the slot above the error handler
GetExceptionHandlerStackOffset_Function(numArgs) == -(numArgs + 1)

\* BaseLuaFunction::GetExceptionHandlerStackOffset(numArgs)
GetExceptionHandlerStackOffset(numArgs) == -(numArgs + 2)

\* what a protected call leaves when the function it called did body (what it
\* returned or raised, in the program state body.w): function and arguments
\* are replaced by the results adjusted to nresults, or by what the handler
\* made of the error
PcallOutcome(w, nargs, nresults, msgh, ub, body) ==
    LET n     == Len(w.stack)
        below == SubSeq(w.stack, 1, n - nargs - 1)
        hres  == IF msgh # 0 /\ w.stack[n + 1 + msgh].t = "cfn"
                 THEN OnLuaException(body.val, ub)
                 ELSE [crash |-> FALSE, msg |-> body.val]
    IN IF body.kind = "return"
       THEN [w |-> [body.w EXCEPT !.stack = below \o
                       (IF nresults = -1      \* LUA_MULTRET
                        THEN body.vals
                        ELSE [i \in 1 .. nresults |->
                                 IF i <= Len(body.vals) THEN body.vals[i] ELSE Nil])],
             status |-> "LUA_OK"]
       ELSE IF hres.crash
            THEN [w |-> Abort(body.w), status |-> "LUA_ERRRUN"]
            ELSE [w |-> [body.w EXCEPT !.stack = Append(below, hres.msg)],
                  status |-> "LUA_ERRRUN"]

\* lua_pcall(L, nargs, nresults, msgh) of a script function that calls no
\* native code
lua_pcall(w, nargs, nresults, msgh, ub) ==
    Once(FnBody(w.stack[Len(w.stack) - nargs].v,
                SubSeq(w.stack, Len(w.stack) - nargs + 1, Len(w.stack))), LAMBDA b :
        PcallOutcome(w, nargs, nresults, msgh, ub,
                     [kind |-> b.kind, vals |-> b.vals, val |-> b.val, w |-> w]))

\* the script function f runs on the arguments args and calls the bound
\* native functions its text names: what it returns or raises, and the
\* program state it leaves (defined with the bound functions)
RECURSIVE Script(_, _, _)

\* lua_pcall(L, nargs, nresults, msgh) of a script function that calls bound
\* native functions
lua_pcallScript(w, nargs, nresults, msgh, ub) ==
    Once(Script(w, w.stack[Len(w.stack) - nargs].v,
                SubSeq(w.stack, Len(w.stack) - nargs + 1, Len(w.stack))), LAMBDA body :
        PcallOutcome(w, nargs, nresults, msgh, ub, body))

\* LuaVar::PushValueToStack()
PushValueToStack(w, h) ==
    [w EXCEPT !.stack = Append(w.stack, IF IsValid(w, h) THEN w.reg[w.ref[h]] ELSE Nil)]

\* LuaVar::IsFunction(): DoLuaAction pushes the value, tests it and pops it
IsFunction(w, h) == IsValid(w, h) /\ w.reg[w.ref[h]].t \in {"fn", "cfn"}

\* BaseLuaFunction::PushArguments
RECURSIVE PushArguments(_, _)
PushArguments(w, args) ==
    IF args = <<>> THEN w ELSE PushArguments(Push(w, Head(args)), Tail(args))

\* the stack a LuaFunction builds for its protected call: the error handler,
\* the function, the arguments from left to right; and what it passes to
\* lua_pcall
PcallSite(w, h, args, nresults, msgh) ==
    [w |-> PushArguments(PushValueToStack([w EXCEPT !.stack = Append(w.stack, ExHandler)], h),
                         args),
     nargs |-> Len(args), nresults |-> nresults, msgh |-> msgh]

\* lua_pcall(pState, sizeof...(Args), 1, GetExceptionHandlerStackOffset(sizeof...(Args)))
SiteRetN(w, h, args) == PcallSite(w, h, args, 1, GetExceptionHandlerStackOffset(Len(args)))
\* lua_pcall(pState, 0, 1, -2)
SiteRet0(w, h) == PcallSite(w, h, <<>>, 1, -2)
\* lua_pcall(pState, sizeof...(Args), 0, GetExceptionHandlerStackOffset(sizeof...(Args)))
SiteVoidN(w, h, args) == PcallSite(w, h, args, 0, GetExceptionHandlerStackOffset(Len(args)))
\* lua_pcall(pState, 0, 0, -2)
SiteVoid0(w, h) == PcallSite(w, h, <<>>, 0, -2)

\* the protected call made at such a site
PcallAt(site, ub) == lua_pcall(site.w, site.nargs, site.nresults, site.msgh, ub)

\* a void operator()() that forgets to pop the error message
CallVoid0_KeepError(w, h, ub) ==
    IF ~IsFunction(w, h)
    THEN [w |-> w, ret |-> NoRet, diag |-> 1]
    ELSE LET w2 == PushValueToStack([w EXCEPT !.stack = Append(w.stack, ExHandler)], h)
             p  == lua_pcall(w2, 0, 0, -2, ub)
         IN IF p.w.aborted
            THEN [w |-> p.w, ret |-> NoRet, diag |-> 0]
            ELSE [w |-> [p.w EXCEPT !.stack = Pop(p.w.stack, 1)], ret |-> NoRet,
                  diag |-> IF p.status # "LUA_OK" THEN 1 ELSE 0]

\* RetType LuaFunction<RetType>::operator()(Args... args)
CallRetN(w, h, R, args, ub) ==
    IF ~IsFunction(w, h)
    THEN [w |-> w, ret |-> GetDefault(R), diag |-> 1]
    ELSE LET oldTop == Len(w.stack)
             p  == PcallAt(SiteRetN(w, h, args), ub)
             g  == Get(p.w, R, ub)
         IN IF p.w.aborted
            THEN [w |-> p.w, ret |-> NoRet, diag |-> 0]
            ELSE IF p.status # "LUA_OK"
            THEN [w |-> lua_settop(p.w, oldTop), ret |-> GetDefault(R), diag |-> 1]
            ELSE [w |-> lua_settop(g.w, oldTop), ret |-> g.ret, diag |-> g.diag]

\* RetType LuaFunction<RetType>::operator()()
CallRet0(w, h, R, ub) ==
    IF ~IsFunction(w, h)
    THEN LET g == Get(w, R, ub)
         IN [w |-> g.w, ret |-> g.ret, diag |-> 1 + g.diag]
    ELSE LET oldTop == Len(w.stack)
             p  == PcallAt(SiteRet0(w, h), ub)
             g  == Get(p.w, R, ub)
         IN IF p.w.aborted
            THEN [w |-> p.w, ret |-> NoRet, diag |-> 0]
            ELSE IF p.status # "LUA_OK"
            THEN [w |-> lua_settop(p.w, oldTop), ret |-> GetDefault(R), diag |-> 1]
            ELSE [w |-> lua_settop(g.w, oldTop), ret |-> g.ret, diag |-> g.diag]

\* a void operator()(Args...) without its StackResetter
AfterVoidN_NoResetter(w, p) ==
    [w |-> p.w, ret |-> NoRet, diag |-> IF p.status # "LUA_OK" THEN 1 ELSE 0]

\* void LuaFunction<void>::operator()(Args... args) after its lua_pcall, which
\* left p: LUA_ERROR on failure, then the StackResetter restores the depth
\* the stack had on entry
AfterVoidN(w, p) ==
    IF p.w.aborted
    THEN [w |-> p.w, ret |-> NoRet, diag |-> 0]
    ELSE [w |-> lua_settop(p.w, Len(w.stack)), ret |-> NoRet,
          diag |-> IF p.status # "LUA_OK" THEN 1 ELSE 0]

\* void LuaFunction<void>::operator()(Args... args)
CallVoidN(w, h, args, ub) ==
    IF ~IsFunction(w, h)
    THEN [w |-> w, ret |-> NoRet, diag |-> 1]
    ELSE Once(PcallAt(SiteVoidN(w, h, args), ub), LAMBDA p : AfterVoidN(w, p))

\* the same operator()(Args...) around a script function that calls bound
\* native functions
CallVoidNScript(w, h, args, ub) ==
    IF ~IsFunction(w, h)
    THEN [w |-> w, ret |-> NoRet, diag |-> 1]
    ELSE Once(SiteVoidN(w, h, args), LAMBDA site :
            Once(lua_pcallScript(site.w, site.nargs, site.nresults, site.msgh, ub),
                 LAMBDA p : AfterVoidN(w, p)))

\* void LuaFunction<void>::operator()()
CallVoid0(w, h, ub) ==
    IF ~IsFunction(w, h)
    THEN [w |-> w, ret |-> NoRet, diag |-> 1]
    ELSE LET p  == PcallAt(SiteVoid0(w, h), ub)
             w3 == IF p.status # "LUA_OK"
                   THEN [p.w EXCEPT !.stack = Pop(p.w.stack, 1)] ELSE p.w
         IN IF p.w.aborted
            THEN [w |-> p.w, ret |-> NoRet, diag |-> 0]
            ELSE [w |-> [w3 EXCEPT !.stack = Pop(w3.stack, 1)], ret |-> NoRet,
                  diag |-> IF p.status # "LUA_OK" THEN 1 ELSE 0]

\* ------------------------------------------------------------------ tables
\* what lua_createtable makes: no pairs, no metatable
NewTable == [pairs |-> <<>>, mt |-> Nil]

\* the text of a field name: names are sequences of the letters 1 .. 4
RECURSIVE TextId(_)
TextId(name) == IF name = <<>> THEN 0 ELSE Head(name) + 5 * TextId(Tail(name))
Key(name) == LStr(10 + TextId(name))
ObjectField == LStr(50)                    \* the string "__object"

\* the tables the scripts build, each as its pairs in lua_next's order:
\* 0 is {}, 1 is {a = {b = {c = 42}}, x = 7}, 2 is {b = {c = 42}},
\* 3 is {c = 42}, 4 is {10, 20, a = true}; 5, 6 and 7 are script objects whose
\* __object is a full userdata, a light userdata and a number
TableDef(id) ==
    CASE id = 1 -> << <<Key(<<1>>), LTab(2)>>, <<Key(<<4>>), LInt(7)>> >>
      [] id = 2 -> << <<Key(<<2>>), LTab(3)>> >>
      [] id = 3 -> << <<Key(<<3>>), LInt(42)>> >>
      [] id = 4 -> << <<LInt(1), LInt(10)>>, <<LInt(2), LInt(20)>>,
                      <<Key(<<1>>), LBool(1)>> >>
      [] id = 5 -> << <<ObjectField, LUd(1)>> >>
      [] id = 6 -> << <<ObjectField, LPtr(1)>> >>
      [] id = 7 -> << <<ObjectField, LInt(7)>> >>
      [] OTHER  -> << >>

\* position of key k in table id, 0 if the table has no such key
KeyIndex(id, k) ==
    LET def == TableDef(id)
        at  == {i \in 1 .. Len(def) : def[i][1] = k}
    IN IF at = {} THEN 0 ELSE CHOOSE i \in at : TRUE

\* the pairs of table id: a table made at run time has a negative id and
\* its pairs are in the heap
Pairs(w, id) == IF id < 0 THEN w.heap[-id].pairs ELSE TableDef(id)

\* position of key k among the pairs def, 0 if there is no such key
PairIndex(def, k) ==
    LET at == {i \in 1 .. Len(def) : def[i][1] = k}
    IN IF at = {} THEN 0 ELSE CHOOSE i \in at : TRUE

\* lua_next(L, -2): pops the key, pushes the pair after it if there is one
lua_next(w0) == Once(w0, LAMBDA w :
    LET n   == Len(w.stack)
        def == Pairs(w, w.stack[n - 1].v)
        key == w.stack[n]
        i   == IF key = Nil THEN 1 ELSE PairIndex(def, key) + 1
    IN IF i <= Len(def)
       THEN [w |-> [w EXCEPT !.stack = Pop(w.stack, 1) \o <<def[i][1], def[i][2]>>],
             more |-> TRUE]
       ELSE [w |-> [w EXCEPT !.stack = Pop(w.stack, 1)], more |-> FALSE])

\* lua_gettable(L, -2) without metamethods: the key on top is replaced by
\* the field's value, nil if the table has no such field
lua_gettable(w0) == Once(w0, LAMBDA w :
    LET n   == Len(w.stack)
        def == Pairs(w, w.stack[n - 1].v)
        i   == PairIndex(def, w.stack[n])
    IN [w EXCEPT !.stack[n] = IF i = 0 THEN Nil ELSE def[i][2]])

\* lua_pushvalue(L, idx) with idx counted from the top (-1 is the top)
lua_pushvalue(w, idx) ==
    [w EXCEPT !.stack = Append(w.stack, w.stack[Len(w.stack) + 1 + idx])]

\* a LuaVar that is a local, a temporary or a member of another object
NilVar == [st |-> DefaultLuaState, ref |-> LUA_REFNIL, prc |-> NullPtr]

\* LuaVar::CreateFromStack(pState) into such a LuaVar
VarFromStack(w0) == Once(w0, LAMBDA w :
    LET r == luaL_ref(w)
    IN IF r.ref # LUA_REFNIL
       THEN LET n == NewRefCount(r.w)
            IN [w |-> n.w,
                var |-> [st |-> DefaultLuaState, ref |-> r.ref, prc |-> n.block]]
       ELSE [w |-> r.w, var |-> NilVar])

\* LuaVar::ClearRef() of such a LuaVar
VarClearRef(w0, x) == Once(w0, LAMBDA w :
    IF x.ref # LUA_REFNIL
    THEN IF x.prc = NullPtr
         THEN Abort(w)
         ELSE LET d == Decrement(w, x.prc)
              IN IF d.zero THEN DeleteRefCount(luaL_unref(d.w, x.ref), x.prc)
                 ELSE d.w
    ELSE w)

\* the value such a LuaVar refers to
VarValue(w, x) ==
    IF x.st # NullPtr /\ x.ref # LUA_REFNIL THEN w.reg[x.ref] ELSE Nil

\* LuaVar::IsTable(): DoLuaAction pushes the value, tests it and pops it
IsTable(w, h) == IsValid(w, h) /\ w.reg[w.ref[h]].t = "table"

\* ---------------------------------------------------------- TableIterator
\* a TableIterator with a default-constructed pair that is not at its end
EndIter_NotAtEnd ==
    [m_pState |-> NullPtr, m_isAtEnd |-> FALSE, key |-> NilVar, value |-> NilVar]

\* TableIterator::TableIterator()
EndIter ==
    [m_pState |-> NullPtr, m_isAtEnd |-> TRUE, key |-> NilVar, value |-> NilVar]

\* LuaVar::InternalBegin(): the iterator, and the diagnostics written
InternalBegin(w0, h) == Once(w0, LAMBDA w :
    IF ~IsValid(w, h)
    THEN [w |-> w, it |-> EndIter, diag |-> 1]
    ELSE LET w1 == PushValueToStack(w, h)
             n  == lua_next([w1 EXCEPT !.stack = Append(w1.stack, Nil)])
             k  == VarFromStack(lua_pushvalue(n.w, -2))
             v  == VarFromStack(k.w)
         IN IF Top(w1.stack).t # "table"
            THEN [w |-> [w1 EXCEPT !.stack = Pop(w1.stack, 1)], it |-> EndIter,
                  diag |-> 1]
            ELSE IF ~n.more
            THEN [w |-> [n.w EXCEPT !.stack = Pop(n.w.stack, 1)], it |-> EndIter,
                  diag |-> 0]
            ELSE [w |-> v.w,
                  it |-> [m_pState |-> w.st[h], m_isAtEnd |-> FALSE,
                          key |-> k.var, value |-> v.var],
                  diag |-> 0])

\* a SetToEnd that leaves the table on the stack
SetToEnd_NoPop(w, it) ==
    LET w1 == VarClearRef(VarClearRef(w, it.key), it.value)
    IN [w |-> w1,
        it |-> [it EXCEPT !.m_isAtEnd = TRUE,
                          !.key = [it.key EXCEPT !.ref = LUA_REFNIL, !.prc = NullPtr],
                          !.value = [it.value EXCEPT !.ref = LUA_REFNIL, !.prc = NullPtr]]]

\* TableIterator::SetToEnd()
SetToEnd(w, it) ==
    LET w1 == VarClearRef(VarClearRef(w, it.key), it.value)
    IN [w |-> [w1 EXCEPT !.stack = Pop(w1.stack, 1)],
        it |-> [it EXCEPT !.m_isAtEnd = TRUE,
                          !.key = [it.key EXCEPT !.ref = LUA_REFNIL, !.prc = NullPtr],
                          !.value = [it.value EXCEPT !.ref = LUA_REFNIL, !.prc = NullPtr]]]

\* an operator++ that stores the new key in m_value and the new value in m_key
IterAdvance_SwapPair(w0, it) == Once(w0, LAMBDA w :
    IF it.m_pState = NullPtr
    THEN [w |-> Abort(w), it |-> it]
    ELSE LET n  == lua_next(w)
             k  == VarFromStack(lua_pushvalue(n.w, -2))
             v  == VarFromStack(VarClearRef(k.w, it.key))
         IN IF ~n.more
            THEN SetToEnd(n.w, it)
            ELSE [w |-> VarClearRef(v.w, it.value),
                  it |-> [it EXCEPT !.key = v.var, !.value = k.var]])

\* TableIterator::operator++(): m_key and m_value are move-assigned from the
\* temporaries CreateFromStack returns, each releasing what it held before
IterAdvance(w0, it) == Once(w0, LAMBDA w :
    IF it.m_pState = NullPtr
    THEN [w |-> Abort(w), it |-> it]
    ELSE LET n  == lua_next(w)
             k  == VarFromStack(lua_pushvalue(n.w, -2))
             v  == VarFromStack(VarClearRef(k.w, it.key))
         IN IF ~n.more
            THEN SetToEnd(n.w, it)
            ELSE [w |-> VarClearRef(v.w, it.value),
                  it |-> [it EXCEPT !.key = k.var, !.value = v.var]])

\* a destructor that pops two values whatever the iterator's state
IterDestroy_AlwaysPop(w, it) ==
    LET w1 == [w EXCEPT !.stack = Pop(w.stack, 2)]
    IN VarClearRef(VarClearRef(w1, it.value), it.key)

\* TableIterator::~TableIterator(), then the destructors of m_value and m_key
IterDestroy(w, it) ==
    LET w1 == IF ~it.m_isAtEnd THEN [w EXCEPT !.stack = Pop(w.stack, 2)] ELSE w
    IN VarClearRef(VarClearRef(w1, it.value), it.key)

\* operator!=(left, right), for range-based for loops only: right is ignored
IterNotEqual(left, right) == ~left.m_isAtEnd

\* lua_rawlen of a table: the length of its array part
lua_rawlen(id) ==
    Cardinality({i \in 1 .. Len(TableDef(id)) : TableDef(id)[i][1].t = "int"})

\* the range-based for loop of GetNumElements: ++count for every element
\* until the iterator compares equal to end(), then the iterator is destroyed
RECURSIVE CountLoop(_, _, _)
CountLoop(w, it, count) ==
    IF w.aborted \/ ~IterNotEqual(it, EndIter)
    THEN [w |-> IF w.aborted THEN w ELSE IterDestroy(w, it), count |-> count]
    ELSE Once(IterAdvance(w, it), LAMBDA a : CountLoop(a.w, a.it, count + 1))

\* a GetNumElements that answers with the table's raw length
GetNumElements_RawLen(w, h) ==
    IF ~IsTable(w, h)
    THEN [w |-> w, ret |-> NInt(0), diag |-> 1]
    ELSE [w |-> w, ret |-> NInt(lua_rawlen(w.reg[w.ref[h]].v)), diag |-> 0]

\* LuaVar::GetNumElements(); IsTable and GetTypeNameStr go through a null
\* m_pState when the handle has none
GetNumElements(w, h) ==
    IF w.st[h] = NullPtr
    THEN [w |-> Abort(w), ret |-> NInt(0), diag |-> 0]
    ELSE IF ~IsTable(w, h)
    THEN [w |-> w, ret |-> NInt(0), diag |-> 1]
    ELSE Once(InternalBegin(w, h), LAMBDA b :
            Once(CountLoop(b.w, b.it, 0), LAMBDA c :
                [w |-> c.w, ret |-> NInt(c.count), diag |-> b.diag]))

\* ------------------------------------------------------------------ Lookup
\* a path is a string over the letters 1 .. 4 and the dot
Dot == 0

\* the handle h as a LuaVar value
HandleVar(w, h) == [st |-> w.st[h], ref |-> w.ref[h], prc |-> w.prc[h]]

\* a split that forgets the piece after the last dot
RECURSIVE SplitPath_DropFinal(_, _, _)
SplitPath_DropFinal(path, start, acc) ==
    LET dots == {i \in start .. Len(path) : path[i] = Dot}
        end  == CHOOSE i \in dots : \A j \in dots : i <= j
    IN IF dots = {}
       THEN acc
       ELSE SplitPath_DropFinal(path, end + 1, Append(acc, SubSeq(path, start, end - 1)))

\* the loop of Lookup that splits the path at its dots; the piece after the
\* last dot is added only when it is not empty
RECURSIVE SplitPath(_, _, _)
SplitPath(path, start, acc) ==
    LET dots == {i \in start .. Len(path) : path[i] = Dot}
        end  == CHOOSE i \in dots : \A j \in dots : i <= j
        finalPiece == SubSeq(path, start, Len(path))
    IN IF dots = {}
       THEN IF finalPiece # <<>> THEN Append(acc, finalPiece) ELSE acc
       ELSE SplitPath(path, end + 1, Append(acc, SubSeq(path, start, end - 1)))

\* LuaVar::GetTableVar(key) = GetTableValue<LuaVar>(key) on the LuaVar x:
\* Is<LuaVar> is always true and Get<LuaVar> duplicates the value before
\* CreateFromStack takes it
GetTableVar(w0, x, name) == Once(w0, LAMBDA w :
    IF x.st = NullPtr
    THEN [w |-> Abort(w), var |-> NilVar, diag |-> 0]
    ELSE IF VarValue(w, x).t # "table"
    THEN [w |-> w, var |-> NilVar, diag |-> 1]
    ELSE LET w1 == [w EXCEPT !.stack = w.stack \o <<VarValue(w, x), Key(name)>>]
             g  == VarFromStack(lua_pushvalue(lua_gettable(w1), -1))
         IN [w |-> [g.w EXCEPT !.stack = Pop(g.w.stack, 2)], var |-> g.var, diag |-> 0])

\* the for loop of Lookup over splitPath[i], i < size - 1, and the final
\* GetTableVar; curr is destroyed on every way out
RECURSIVE LookupLoop(_, _, _, _)
LookupLoop(w, curr, splitPath, i) ==
    Once(GetTableVar(w, curr, splitPath[i]), LAMBDA g :
        Once(VarClearRef(g.w, curr), LAMBDA w1 :
            IF g.w.aborted
            THEN [w |-> g.w, var |-> NilVar, diag |-> 0]
            ELSE IF i = Len(splitPath)
            THEN [w |-> w1, var |-> g.var, diag |-> g.diag]
            ELSE IF VarValue(w1, g.var).t # "table"
            THEN [w |-> VarClearRef(w1, g.var), var |-> NilVar, diag |-> g.diag + 1]
            ELSE LookupLoop(w1, g.var, splitPath, i + 1)))

\* LuaVar::Lookup(path)
Lookup(w, h, path) ==
    LET splitPath == SplitPath(path, 1, <<>>)
        curr == HandleVar(w, h)
    IN IF w.st[h] = NullPtr
       THEN [w |-> Abort(w), var |-> NilVar, diag |-> 0]
       ELSE IF ~IsTable(w, h)
       THEN [w |-> w, var |-> NilVar, diag |-> 1]
       ELSE IF splitPath = <<>>
       THEN [w |-> w, var |-> NilVar, diag |-> 1]
       ELSE IF Len(splitPath) = 1
       THEN GetTableVar(w, curr, splitPath[1])
       ELSE LookupLoop(Increment(w, curr.prc), curr, splitPath, 1)

\* ------------------------------------------------- tables made at run time
\* lua_createtable: a new empty table on top of the stack
lua_createtable(w) ==
    [w EXCEPT !.heap = Append(w.heap, NewTable),
              !.stack = Append(w.stack, LTab(-(Len(w.heap) + 1)))]

\* lua_next's order in a table made at run time: the integer keys in
\* ascending order, then the strings by their text
KeyRank(k) == IF k.t = "int" THEN k.v ELSE 1000 + k.v
InOrder(def) ==
    [i \in 1 .. Len(def) |->
        def[CHOOSE j \in 1 .. Len(def) :
               Cardinality({m \in 1 .. Len(def) :
                               KeyRank(def[m][1]) < KeyRank(def[j][1])}) = i - 1]]

\* a raw set that replaces the whole table by the one pair
RawSet_Forget(w, id, k, v) ==
    IF id >= 0 THEN w
    ELSE [w EXCEPT !.heap[-id].pairs = IF v = Nil THEN <<>> ELSE << <<k, v>> >>]

\* t[k] = v without metamethods: storing nil removes the pair.  The tables of
\* the scripts (TableDef) are never written.
RawSet(w, id, k, v) ==
    IF id >= 0 THEN w
    ELSE LET def == w.heap[-id].pairs
             i   == PairIndex(def, k)
         IN [w EXCEPT !.heap[-id].pairs =
                IF v = Nil
                THEN [j \in 1 .. Len(def) - (IF i = 0 THEN 0 ELSE 1) |->
                         IF i = 0 \/ j < i THEN def[j] ELSE def[j + 1]]
                ELSE IF i = 0 THEN InOrder(Append(def, <<k, v>>))
                ELSE [def EXCEPT ![i] = <<k, v>>]]

\* lua_settable(L, idx), idx < 0: t[k] = v with t at idx, k below the top and
\* v on top; pops both
lua_settable(w, idx) ==
    LET n == Len(w.stack)
    IN [RawSet(w, w.stack[n + 1 + idx].v, w.stack[n - 1], w.stack[n])
           EXCEPT !.stack = Pop(w.stack, 2)]

\* lua_seti(L, idx, i) and lua_setfield(L, idx, name): t[key] = v with v on
\* top; pops it.  Storing into a value that is not a table raises an error
\* outside any protected call.
SetKey(w, idx, key) ==
    LET n == Len(w.stack)
        t == w.stack[n + 1 + idx]
    IN IF t.t # "table" THEN Abort(w)
       ELSE [RawSet(w, t.v, key, w.stack[n]) EXCEPT !.stack = Pop(w.stack, 1)]

\* lua_rawlen: the border of a table, the length of a string (the empty
\* text has none, the other texts of the model are one letter long), 0 else
EmptyText == Key(<<>>)
RawLength(w, v) ==
    IF v.t = "table"
    THEN Cardinality({i \in 1 .. Len(Pairs(w, v.v)) : Pairs(w, v.v)[i][1].t = "int"})
    ELSE IF v.t = "str" THEN (IF v = EmptyText THEN 0 ELSE 1)
    ELSE 0

\* LuaVar::DoLuaAction on the LuaVar x up to the call of func:
\* LUA_ASSERT(m_pState), then PushValueToStack(allowNil), which pushes nil
\* through m_pState when there is no value
DoLuaAction(w, x, allowNil) ==
    IF x.st = NullPtr /\ (w.debug \/ allowNil)
    THEN [w |-> Abort(w), pushed |-> FALSE]
    ELSE IF x.st # NullPtr /\ x.ref # LUA_REFNIL
    THEN [w |-> [w EXCEPT !.stack = Append(w.stack, w.reg[x.ref])], pushed |-> TRUE]
    ELSE IF allowNil
    THEN [w |-> [w EXCEPT !.stack = Append(w.stack, Nil)], pushed |-> TRUE]
    ELSE [w |-> w, pushed |-> FALSE]

\* the type predicates of LuaVar
Predicates == {"Integer", "Number", "String", "Bool", "LightUserData", "UserData",
               "Function", "CFunction", "Table"}

\* lua_isinteger, lua_isnumber, lua_isstring, lua_isboolean, Is<void*>,
\* lua_isfunction, lua_iscfunction, lua_istable on the value v
lua_is(X, v) ==
    CASE X = "Integer"  -> v.t = "int"
      [] X = "Number"   -> v.t = "int" \/ lua_tointegerx(v).success
      [] X = "String"   -> v.t \in {"str", "int"}
      [] X = "Bool"     -> v.t = "bool"
      [] X \in {"LightUserData", "UserData"} -> lua_isuserdata(v)
      [] X = "Function" -> v.t \in {"fn", "cfn"}
      [] X = "CFunction" -> v.t = "cfn"
      [] X = "Table"    -> v.t = "table"

\* LuaVar::IsInteger .. IsTable: IsType<T> answers false for nil before it
\* touches the state; IsFunction, IsCFunction and IsTable call DoLuaAction
\* directly
IsX(w, x, X) ==
    IF X \notin {"Function", "CFunction", "Table"} /\ x.ref = LUA_REFNIL
    THEN [w |-> w, ret |-> FALSE]
    ELSE LET a == DoLuaAction(w, x, FALSE)
         IN IF ~a.pushed THEN [w |-> a.w, ret |-> FALSE]
            ELSE [w |-> [a.w EXCEPT !.stack = Pop(a.w.stack, 1)],
                  ret |-> lua_is(X, Top(a.w.stack))]

\* a GetTypeName that leaves the value it pushed
GetTypeName_NoPop(w, x) == DoLuaAction(w, x, TRUE).w

\* LuaVar::GetTypeName(): lua_typename of the value, nil allowed
GetTypeName(w, x) ==
    LET a == DoLuaAction(w, x, TRUE)
    IN IF ~a.pushed THEN a.w ELSE [a.w EXCEPT !.stack = Pop(a.w.stack, 1)]

\* StackHelpers::Is<Type> for the native types
IsNative(T, v) ==
    CASE T = "int"  -> lua_is("Integer", v)
      [] T = "bool" -> lua_is("Bool", v)
      [] T = "str"  -> lua_is("String", v)
      [] T = "ptr"  -> lua_is("UserData", v)

\* LuaVar::GetValue<Type>(): LUA_ASSERT(m_pState), LUA_ASSERT(m_reference !=
\* LUA_REFNIL), DoLuaAction around StackHelpers::Get<Type>
GetValue(w, x, T) ==
    IF w.debug /\ x.ref = LUA_REFNIL
    THEN [w |-> Abort(w), ret |-> GetDefault(T), diag |-> 0]
    ELSE LET a == DoLuaAction(w, x, FALSE)
         IN IF ~a.pushed THEN [w |-> a.w, ret |-> GetDefault(T), diag |-> 0]
            ELSE [w |-> [a.w EXCEPT !.stack = Pop(a.w.stack, 1)],
                  ret |-> GetOf(T, Top(a.w.stack)).ret,
                  diag |-> GetOf(T, Top(a.w.stack)).diag]

\* LuaVar::GetTableValue<Type>(key) for the native types
GetTableValue(w, x, key, T) ==
    IF x.st = NullPtr
    THEN [w |-> Abort(w), ret |-> GetDefault(T), diag |-> 0]
    ELSE IF VarValue(w, x).t # "table"
    THEN [w |-> GetTypeName(w, x), ret |-> GetDefault(T), diag |-> 1]
    ELSE LET w1 == lua_gettable([w EXCEPT !.stack = w.stack \o <<VarValue(w, x), key>>])
             g  == GetOf(T, Top(w1.stack))
         IN IF ~IsNative(T, Top(w1.stack))
            THEN [w |-> [w1 EXCEPT !.stack = Pop(w1.stack, 2)],
                  ret |-> GetDefault(T), diag |-> 1]
            ELSE [w |-> [w1 EXCEPT !.stack = Pop(w1.stack, 2)],
                  ret |-> g.ret, diag |-> g.diag]

\* a SetTableValue that leaves the table on the stack
SetTableValue_NoPop(w, x, key, v) ==
    IF x.st = NullPtr
    THEN [w |-> Abort(w), diag |-> 0]
    ELSE IF VarValue(w, x).t # "table"
    THEN [w |-> GetTypeName(w, x), diag |-> 1]
    ELSE [w |-> lua_settable([w EXCEPT !.stack = w.stack \o <<VarValue(w, x), key, v>>], -3),
          diag |-> 0]

\* LuaVar::SetTableValue<Type>(key, value); v is what StackHelpers::Push
\* pushes for value
SetTableValue(w, x, key, v) ==
    IF x.st = NullPtr
    THEN [w |-> Abort(w), diag |-> 0]
    ELSE IF VarValue(w, x).t # "table"
    THEN [w |-> GetTypeName(w, x), diag |-> 1]
    ELSE LET w1 == lua_settable([w EXCEPT !.stack = w.stack \o <<VarValue(w, x), key, v>>], -3)
         IN [w |-> [w1 EXCEPT !.stack = Pop(w1.stack, 1)], diag |-> 0]

\* a CreateNewTable that does not release what the handle holds
CreateNewTable_NoClearRef(w, h) ==
    IF w.st[h] = NullPtr THEN Abort(w)
    ELSE LET w1 == lua_createtable(w)
             r  == luaL_ref(w1)
             n  == NewRefCount(r.w)
         IN [n.w EXCEPT !.ref[h] = r.ref, !.prc[h] = n.block]

\* LuaVar::CreateNewTable()
CreateNewTable(w, h) ==
    IF w.st[h] = NullPtr THEN Abort(w)
    ELSE Once(ClearRef(w, h), LAMBDA w1 :
            IF w1.aborted THEN w1
            ELSE CreateRegisteryEntryFromStack(lua_createtable(w1), h))

\* lua_newuserdata for WrapObjectPtr(pPtr): the address of the new block,
\* which is no address of the application, and what memcpy stored in it
UdBlock(pPtr) == BlockBase + pPtr
UdContent(block) == block - BlockBase

\* LuaVar::WrapObjectPtr(pPtr): lua_newuserdata makes the block and the
\* pointer is copied into it
WrapObjectPtr(w, h, pPtr) ==
    IF w.st[h] = NullPtr \/ (w.debug /\ pPtr = NullPtr) THEN Abort(w)
    ELSE Once(ClearRef(w, h), LAMBDA w1 :
            IF w1.aborted THEN w1
            ELSE CreateRegisteryEntryFromStack(
                     [w1 EXCEPT !.stack = Append(w1.stack, LUd(UdBlock(pPtr)))], h))

\* a SetNewTable that returns a second new table
SetNewTable_OtherTable(w, x, key) ==
    IF x.st = NullPtr
    THEN [w |-> Abort(w), var |-> NilVar, diag |-> 0]
    ELSE Once(VarFromStack(lua_createtable(w)), LAMBDA t :
            Once(SetTableValue(t.w, x, key, VarValue(t.w, t.var)), LAMBDA s :
               Once(VarFromStack(lua_createtable(VarClearRef(s.w, t.var))), LAMBDA u :
                  [w |-> u.w, var |-> u.var, diag |-> s.diag])))

\* LuaVar::SetNewTable(key): LuaVar table(m_pState); table.CreateNewTable();
\* SetTableValue(key, table); return table;
SetNewTable(w, x, key) ==
    IF x.st = NullPtr
    THEN [w |-> Abort(w), var |-> NilVar, diag |-> 0]
    ELSE Once(VarFromStack(lua_createtable(w)), LAMBDA t :
            Once(SetTableValue(t.w, x, key, VarValue(t.w, t.var)), LAMBDA s :
                [w |-> s.w, var |-> t.var, diag |-> s.diag]))

\* LuaVar::GetOrCreateNewTable(key)
GetOrCreateNewTable(w, x, name) ==
    Once(GetTableVar(w, x, name), LAMBDA g :
        IF g.w.aborted THEN [w |-> g.w, var |-> NilVar, diag |-> 0]
        ELSE IF VarValue(g.w, g.var).t = "table"
        THEN [w |-> g.w, var |-> g.var, diag |-> g.diag]
        ELSE IF g.var.ref = LUA_REFNIL
        THEN Once(SetNewTable(g.w, x, Key(name)), LAMBDA n :
                [w |-> n.w, var |-> n.var, diag |-> g.diag + n.diag])
        ELSE [w |-> VarClearRef(GetTypeName(g.w, g.var), g.var), var |-> NilVar,
              diag |-> g.diag + 1])

\* LuaVar::GetLength()
GetLength(w, x) ==
    LET a == DoLuaAction(w, x, FALSE)
    IN IF ~a.pushed THEN [w |-> a.w, ret |-> NInt(0)]
       ELSE [w |-> [a.w EXCEPT !.stack = Pop(a.w.stack, 1)],
             ret |-> NInt(RawLength(w, Top(a.w.stack)))]

\* LuaVar::Insert(val): appends after the array part
Insert(w, x, v) ==
    IF x.st = NullPtr
    THEN [w |-> Abort(w), diag |-> 0]
    ELSE IF VarValue(w, x).t # "table"
    THEN [w |-> GetTypeName(w, x), diag |-> 1]
    ELSE LET a     == DoLuaAction(w, x, FALSE)
             index == GetLength(a.w, x).ret.v + 1
             w1    == SetKey([a.w EXCEPT !.stack = Append(a.w.stack, v)], -2, LInt(index))
         IN [w |-> [w1 EXCEPT !.stack = Pop(w1.stack, 1)], diag |-> 0]

\* LuaVar::GetVarAt(index): indexing a value that is not a table raises an
\* error outside any protected call
GetVarAt(w, x, index) ==
    LET a == DoLuaAction(w, x, FALSE)
    IN IF ~a.pushed THEN [w |-> a.w, var |-> NilVar]
       ELSE IF Top(a.w.stack).t # "table" THEN [w |-> Abort(a.w), var |-> NilVar]
       ELSE Once(VarFromStack(lua_gettable([a.w EXCEPT !.stack = Append(a.w.stack, index)])),
                 LAMBDA g : [w |-> [g.w EXCEPT !.stack = Pop(g.w.stack, 1)], var |-> g.var])

\* LuaVar::SetMetaTable(metaTable) on a table made at run time: the asserts
\* hold its preconditions in a debug build; a release build runs into
\* lua_setmetatable with whatever the two pushes left
SetMetaTable(w, x, mt) ==
    IF VarValue(w, x).t # "table" \/ VarValue(w, mt).t # "table" \/ VarValue(w, x).v >= 0
    THEN Abort(w)
    ELSE LET w1 == [w EXCEPT !.stack = w.stack \o <<VarValue(w, x), VarValue(w, mt)>>]
             w2 == [w1 EXCEPT !.heap[-VarValue(w, x).v].mt = Top(w1.stack),
                              !.stack = Pop(w1.stack, 1)]
         IN [w2 EXCEPT !.stack = Pop(w2.stack, 1)]

\* lua_getmetatable(L, -1): pushes the metatable if the value has one
lua_getmetatable(w) ==
    LET v  == Top(w.stack)
        mt == IF v.t = "table" /\ v.v < 0 THEN w.heap[-v.v].mt ELSE Nil
    IN IF mt = Nil THEN [w |-> w, success |-> FALSE]
       ELSE [w |-> [w EXCEPT !.stack = Append(w.stack, mt)], success |-> TRUE]

\* LuaVar::GetMetaTable()
GetMetaTable(w, x) ==
    IF w.debug /\ VarValue(w, x).t # "table"
    THEN [w |-> Abort(w), var |-> NilVar]
    ELSE LET a == DoLuaAction(w, x, FALSE)
         IN IF ~a.pushed THEN [w |-> a.w, var |-> NilVar]
            ELSE Once(lua_getmetatable(a.w), LAMBDA m :
                    IF ~m.success
                    THEN [w |-> [m.w EXCEPT !.stack = Pop(m.w.stack, 1)], var |-> NilVar]
                    ELSE Once(VarFromStack(m.w), LAMBDA g :
                            [w |-> [g.w EXCEPT !.stack = Pop(g.w.stack, 1)], var |-> g.var]))

\* the closure lua_pushcclosure makes over a trampoline with n upvalues
LClosure(trampoline) == [t |-> "cfn", v |-> trampoline]

\* the three LuaVar::BindFunction overloads: the upvalues are pushed above
\* the table, lua_pushcclosure replaces them by the closure, lua_setfield
\* stores it
BindFunction(w, x, name, trampoline) ==
    IF x.st = NullPtr \/ (w.debug /\ VarValue(w, x).t # "table")
    THEN Abort(w)
    ELSE LET ups == CASE trampoline = "CallBoundFunction" -> <<LPtr(1)>>
                      [] trampoline = "CallBoundMemberFunctionObjPair" -> <<LPtr(2), LUd(1)>>
                      [] trampoline = "CallBoundMemberFunction" -> <<LUd(1)>>
             w1  == [w EXCEPT !.stack = w.stack \o <<VarValue(w, x)>> \o ups]
             w2  == [w1 EXCEPT !.stack = Append(Pop(w1.stack, Len(ups)), LClosure(trampoline))]
             w3  == SetKey(w2, -2, Key(name))
         IN IF w3.aborted THEN w3 ELSE [w3 EXCEPT !.stack = Pop(w3.stack, 1)]

\* the globals table of the state
Globals == LTab(-1)

\* lua_getglobal(L, key): pushes _G[key]
lua_getglobal(w, key) ==
    LET w1 == lua_gettable([w EXCEPT !.stack = w.stack \o <<Globals, key>>])
    IN [w EXCEPT !.stack = Append(w.stack, Top(w1.stack))]

\* lua_setglobal(L, key): _G[key] = the top, which it pops
lua_setglobal(w, key) ==
    [RawSet(w, Globals.v, key, Top(w.stack)) EXCEPT !.stack = Pop(w.stack, 1)]

\* LuaState::GetGlobal<Type>(key) for the native types; a null key is an error
GetGlobal(w, key, T) ==
    IF key = NullPtr
    THEN [w |-> w, ret |-> GetDefault(T), diag |-> 1]
    ELSE LET w1 == lua_getglobal(w, LStr(key))
             g  == GetOf(T, Top(w1.stack))
         IN [w |-> [w1 EXCEPT !.stack = Pop(w1.stack, 1)], ret |-> g.ret, diag |-> g.diag]

\* LuaState::GetGlobal<LuaVar>(key): Get<LuaVar> duplicates the value and
\* makes the handle of the copy
GetGlobalVar(w, key) ==
    IF key = NullPtr
    THEN [w |-> w, var |-> NilVar, diag |-> 1]
    ELSE LET w1 == lua_getglobal(w, LStr(key))
         IN Once(VarFromStack([w1 EXCEPT !.stack = Append(w1.stack, Top(w1.stack))]),
                 LAMBDA g : [w |-> [g.w EXCEPT !.stack = Pop(g.w.stack, 1)],
                             var |-> g.var, diag |-> 0])

\* LuaState::SetGlobal(key, value): Push, lua_setglobal
SetGlobal(w, key, v) ==
    lua_setglobal([w EXCEPT !.stack = Append(w.stack, v)], LStr(key))

\* ------------------------------------------------- bound native functions
\* a LuaVar handed to a native function: the value it refers to
NVar(v) == [k |-> "var", v |-> v]

\* StackHelpers::GetDefault<Arg>() for the parameter types
ArgDefault(T) == IF T = "var" THEN NVar(Nil) ELSE GetDefault(T)

\* Debug::GetTraceback, debug builds only: luaL_traceback pushes the text,
\* GetFromStack<const char*> reads and pops it
GetTraceback(w) ==
    IF w.debug
    THEN LET w1 == [w EXCEPT !.stack = Append(w.stack, LStr(TraceText(0)))]
         IN [w1 EXCEPT !.stack = Pop(w1.stack, 1)]
    ELSE w

\* LuaVar::ProcessArg for one parameter of type T: Get<Arg>(pState,
\* kParamIndex) if kTupleIndex < numArgs, GetDefault<Arg>() otherwise
ProcessArg(w0, T, kTupleIndex, kParamIndex, numArgs) == Once(w0, LAMBDA w :
    IF kTupleIndex < numArgs
    THEN IF T = "var"
         THEN LET g == VarFromStack([w EXCEPT !.stack = Append(w.stack, w.stack[kParamIndex])])
              IN [w |-> g.w, nv |-> NVar(VarValue(g.w, g.var)), var |-> g.var]
         ELSE LET g == GetOf(T, w.stack[kParamIndex])
              IN [w |-> [w EXCEPT !.stack[kParamIndex] = g.left], nv |-> g.ret,
                  var |-> NilVar]
    ELSE [w |-> w, nv |-> ArgDefault(T), var |-> NilVar])

\* the recursion of ProcessArg over the parameter pack
RECURSIVE ProcessArgs(_, _, _, _, _, _)
ProcessArgs(w, params, kTupleIndex, kParamIndex, numArgs, tuple) ==
    IF params = <<>>
    THEN [w |-> w, tuple |-> tuple]
    ELSE Once(ProcessArg(w, Head(params), kTupleIndex, kParamIndex, numArgs), LAMBDA a :
            ProcessArgs(a.w, Tail(params), kTupleIndex + 1, kParamIndex + 1, numArgs,
                        Append(tuple, [nv |-> a.nv, var |-> a.var])))

\* a BuildArguments that leaves the arguments on the stack
BuildArguments_NoClear(w, params) ==
    ProcessArgs(w, params, 0, 1, Len(w.stack), <<>>)

\* LuaVar::BuildArguments<Args...>
BuildArguments(w, params) ==
    Once(ProcessArgs(w, params, 0, 1, Len(w.stack), <<>>), LAMBDA p :
        [w |-> lua_settop(p.w, 0), tuple |-> p.tuple])

\* a BuildArgumentsWithObj that forgets to count pObj
BuildArgumentsWithObj_NoPlusOne(w, params) ==
    Once(ProcessArgs(w, params, 1, 1, Len(w.stack), <<>>), LAMBDA p :
        [w |-> lua_settop(p.w, 0), tuple |-> p.tuple])

\* LuaVar::BuildArgumentsWithObj<Obj, Args...>: pObj is element 0 of the
\* tuple, so the first parameter is element 1
BuildArgumentsWithObj(w, params) ==
    Once(ProcessArgs(w, params, 1, 1, Len(w.stack) + 1, <<>>), LAMBDA p :
        [w |-> lua_settop(p.w, 0), tuple |-> p.tuple])

\* the tuple of arguments goes out of scope: its LuaVars release their slots
RECURSIVE DestroyTuple(_, _)
DestroyTuple(w, tuple) ==
    IF tuple = <<>> THEN w
    ELSE DestroyTuple(VarClearRef(w, tuple[Len(tuple)].var), SubSeq(tuple, 1, Len(tuple) - 1))

\* the parameters a native function received
Received(tuple) == [i \in 1 .. Len(tuple) |-> tuple[i].nv]

\* LuaVar::Call: build the arguments, apply the native function (it receives
\* pObj and the arguments, sees a frame of the recorded depth, leaves the
\* stack alone and returns nativeRet), push what it returned
Call(w, sig, pObj, b, nativeRet) ==
    Once(DestroyTuple(b.w, b.tuple), LAMBDA w1 :
        [w |-> IF sig.ret = "void" THEN w1 ELSE Push(w1, nativeRet),
         n |-> IF sig.ret = "void" THEN 0 ELSE 1,
         calls |-> << [obj |-> pObj, params |-> Received(b.tuple),
                       depth |-> Len(b.w.stack)] >>,
         diag |-> 0])

\* LuaVar::CallBoundFunction<Func>
CallBoundFunction(w, sig, nativeRet) ==
    Once(BuildArguments(GetTraceback(w), sig.params), LAMBDA b :
        Call(w, sig, NullPtr, b, nativeRet))

\* the application's table, as its bound functions know it
AppTable(w) == {h \in Handles : w.alive[h] /\ IsTable(w, h)}

\* the application's LuaFunction<void> around the script function f
AppFunction(w, f) == {h \in Handles : w.alive[h] /\ IsValid(w, h) /\ w.reg[w.ref[h]] = LFn(f)}

\* the bound native functions of the application, applied to the parameters
\* they received: Again(n) calls the script function through the application's
\* LuaFunction<void> with n, Count() iterates the application's table with
\* GetNumElements
Native(w, name, params) ==
    IF w.aborted THEN w
    ELSE IF name = "Again"
    THEN IF AppFunction(w, 5) = {} THEN w
         ELSE CallVoidNScript(w, CHOOSE h \in AppFunction(w, 5) : TRUE, <<params[1]>>,
                              "survive").w
    ELSE IF AppTable(w) = {} THEN w
         ELSE GetNumElements(w, CHOOSE h \in AppTable(w) : TRUE).w

\* LuaVar::CallBoundFunction<Func> with a native function that works on the
\* runtime before it returns
CallBoundFunctionActing(w, sig, name) ==
    Once(BuildArguments(GetTraceback(w), sig.params), LAMBDA b :
        Once(Native(b.w, name, Received(b.tuple)), LAMBDA wn :
            Call(w, sig, NullPtr, [b EXCEPT !.w = wn], Nil)))

\* the runtime calls a C function from a script: the function's frame holds
\* its arguments and nothing else (index 1 is the first argument, and
\* lua_settop(L, 0) empties this frame); what lies below is the callers'. On
\* return the frame is dropped and the n results reach the caller, which here
\* is a script statement that discards them
CFrame(w, args, sig, name) ==
    Once(CallBoundFunctionActing([w EXCEPT !.stack = args], sig, name), LAMBDA r :
        [r.w EXCEPT !.stack = w.stack])

\* function(n) if n > 0 then Again(n - 1) else Count() end end
Script(w, f, args) ==
    IF f # 5
    THEN Once(FnBody(f, args), LAMBDA b :
            [kind |-> b.kind, vals |-> b.vals, val |-> b.val, w |-> w])
    ELSE LET n == IF args # <<>> /\ args[1].t = "int" THEN args[1].v ELSE 0
         IN [kind |-> "return", vals |-> <<>>, val |-> Nil,
             w |-> IF n > 0
                   THEN CFrame(w, <<LInt(n - 1)>>,
                               [ret |-> "void", params |-> <<"int">>], "Again")
                   ELSE CFrame(w, <<>>, [ret |-> "void", params |-> <<>>], "Count")]

\* LuaVar::CallBoundMemberFunctionObjPair<Obj, Func>: pObj is upvalue 1
CallBoundMemberFunctionObjPair(w, sig, pObj, nativeRet) ==
    Once(BuildArgumentsWithObj(GetTraceback(w), sig.params), LAMBDA b :
        Call(w, sig, pObj, b, nativeRet))

\* lua_rawget(L, -2): the field's value without metamethods
lua_rawget(w) == lua_gettable(w)

\* a CallBoundMemberFunction that leaves the receiver among the arguments
CallBoundMemberFunction_KeepReceiver(w0, sig, nativeRet) == Once(GetTraceback(w0), LAMBDA w :
    IF w.stack = <<>> \/ w.stack[1].t # "table"
    THEN [w |-> w, n |-> 0, calls |-> <<>>, diag |-> 1]
    ELSE LET w1 == lua_rawget([w EXCEPT !.stack = w.stack \o <<w.stack[1], ObjectField>>])
         IN IF ~lua_isuserdata(Top(w1.stack))
            THEN [w |-> w1, n |-> 0, calls |-> <<>>, diag |-> 1]
            ELSE Once(BuildArgumentsWithObj([w1 EXCEPT !.stack = Pop(w1.stack, 2)],
                                            sig.params), LAMBDA b :
                    Call(w, sig, lua_touserdata(Top(w1.stack)), b, nativeRet)))

\* LuaVar::CallBoundMemberFunction<Obj, Func>: pObj is the __object field of
\* the first argument, which is removed from the frame
CallBoundMemberFunction(w0, sig, nativeRet) == Once(GetTraceback(w0), LAMBDA w :
    IF w.stack = <<>> \/ w.stack[1].t # "table"
    THEN [w |-> w, n |-> 0, calls |-> <<>>, diag |-> 1]
    ELSE LET w1 == lua_rawget([w EXCEPT !.stack = w.stack \o <<w.stack[1], ObjectField>>])
         IN IF ~lua_isuserdata(Top(w1.stack))
            THEN [w |-> w1, n |-> 0, calls |-> <<>>, diag |-> 1]
            ELSE Once(BuildArgumentsWithObj([w1 EXCEPT !.stack = Tail(Pop(w1.stack, 2))],
                                            sig.params), LAMBDA b :
                    Call(w, sig, lua_touserdata(Top(w1.stack)), b, nativeRet)))

\* ------------------------------------------------------------- comparisons
\* values the runtime can order without metamethods
Orderable(x, y) == x.t = "int" /\ y.t = "int"

\* lua_compare(L, index1, index2, op) on the values x at index1 and y at
\* index2: 1 if x satisfies op when compared with y.  Ordering values that
\* cannot be ordered raises an error outside any protected call.
lua_compare(x, y, op) ==
    CASE op = "LUA_OPEQ" -> [result |-> IF x = y THEN 1 ELSE 0, error |-> FALSE]
      [] op = "LUA_OPLT" -> IF Orderable(x, y)
                            THEN [result |-> IF x.v < y.v THEN 1 ELSE 0, error |-> FALSE]
                            ELSE [result |-> 0, error |-> TRUE]
      [] op = "LUA_OPLE" -> IF Orderable(x, y)
                            THEN [result |-> IF x.v <= y.v THEN 1 ELSE 0, error |-> FALSE]
                            ELSE [result |-> 0, error |-> TRUE]

\* LuaVar::CompareHelper(right, op): left is pushed first, so it lies at
\* index -2 and right at index -1
CompareHelper(w, h, right, op) ==
    IF w.st[h] = NullPtr
    THEN [w |-> Abort(w), ret |-> FALSE]
    ELSE LET w2 == PushValueToStack(PushValueToStack(w, h), right)
             n  == Len(w2.stack)
             c  == lua_compare(w2.stack[n], w2.stack[n - 1], op)
         IN IF c.error
            THEN [w |-> Abort(w2), ret |-> FALSE]
            ELSE [w |-> [w2 EXCEPT !.stack = Pop(w2.stack, 2)], ret |-> c.result = 1]

\* the comparison operators of LuaVar
CompareOps == {"==", "!=", "<", "<=", ">", ">="}

\* bool LuaVar::operator==, !=, <, <=, >, >= (const LuaVar& right) const
Compare(w, h, right, op) ==
    LET eq == CompareHelper(w, h, right, "LUA_OPEQ")
        lt == CompareHelper(w, h, right, "LUA_OPLT")
        le == CompareHelper(w, h, right, "LUA_OPLE")
    IN CASE op = "==" -> eq
         [] op = "!=" -> [eq EXCEPT !.ret = ~eq.ret]
         [] op = "<"  -> lt
         [] op = "<=" -> le
         [] op = ">"  -> [le EXCEPT !.ret = ~le.ret]
         [] op = ">=" -> [lt EXCEPT !.ret = ~lt.ret]

\* ------------------------------------------------------------------- ghost
\* no TableIterator object exists
NoIter ==
    [alive |-> FALSE, it |-> EndIter, base |-> <<>>, seen |-> <<>>, table |-> 0]


\* the operation that produced the current state, the situation it found,
\* and the native value it returned
Did(op, case, ret) ==
    /\ last' = [op |-> op, case |-> case, ret |-> ret, diag |-> 0]
    /\ overwrites' = overwrites + (IF op = "SetValue" /\ case = "held" THEN 1 ELSE 0)
    /\ UNCHANGED <<iter, inner>>

\* situation of "h = r" / "LuaVar h(r)" before it runs
AssignCase(w, h, r) ==
    IF h = r THEN "self"
    ELSE IF w.ref[r] = LUA_REFNIL THEN "nilsrc"
    ELSE IF w.ref[h] = w.ref[r] THEN "same"
    ELSE IF w.ref[h] # LUA_REFNIL THEN "replace"
    ELSE "fresh"

\* situation of a release of h's reference before it runs
ReleaseCase(w, h) ==
    IF w.ref[h] = LUA_REFNIL THEN "nil"
    ELSE IF w.prc[h] # NullPtr /\ w.cnt[w.prc[h]] = 1 THEN "last"
    ELSE "shared"

\* a new object takes the first unused identity
NewObj(w) == CHOOSE h \in Handles : ~w.alive[h] /\ \A g \in Handles : ~w.alive[g] => h <= g
HasRoom(w) == \E h \in Handles : ~w.alive[h]

\* copying r does not push its count beyond the modelled range
CountRoom(w, r) == w.prc[r] # NullPtr => w.cnt[w.prc[r]] < MaxCount

\* a call: what it returned and how many diagnostics (LUA_ERROR) it wrote
DidCall(op, case, r) ==
    /\ last' = [op |-> op, case |-> case, ret |-> r.ret, diag |-> r.diag]
    /\ overwrites' = overwrites
    /\ UNCHANGED <<iter, inner>>

\* situation of a call through the wrapper around h before it runs
CallCase(w, h, args) ==
    IF ~IsFunction(w, h) THEN "notfn"
    ELSE FnBody(w.reg[w.ref[h]].v, args).kind

\* -------------------------------------------------------------- operations
Running == ~aborted

\* the application pushes a value itself (lua_pushinteger, lua_getglobal, ...)
PushValue(v) ==
    /\ Running
    /\ Len(stack) < MaxStack
    /\ Commit([World EXCEPT !.stack = Append(stack, v)])
    /\ Did("Push", "-", NoRet)
    /\ UNCHANGED retType

\* LuaVar h;
DefaultConstruct(h) ==
    /\ Running
    /\ HasRoom(World) /\ h = NewObj(World)
    /\ Commit(Construct(World, h, DefaultLuaState))
    /\ Did("Construct", "-", NoRet)
    /\ UNCHANGED retType

\* LuaVar h = LuaVar::CreateFromStack(pState);
CreateFromStack(h) ==
    /\ Running
    /\ HasRoom(World) /\ h = NewObj(World)
    /\ Len(stack) > 0
    /\ RefRoom(World) /\ NewRoom(World)
    /\ Commit(CreateRegisteryEntryFromStack(Construct(World, h, DefaultLuaState), h))
    /\ Did("CreateFromStack", IF Top(stack).t = "nil" THEN "nil" ELSE "value", NoRet)
    /\ UNCHANGED retType

\* LuaVar h(r);
CopyConstruct(h, r) ==
    /\ Running
    /\ HasRoom(World) /\ h = NewObj(World) /\ alive[r]
    /\ CountRoom(World, r)
    /\ Commit(Copy(Construct(World, h, DefaultLuaState), h, r))
    /\ Did("CopyConstruct", AssignCase(World, h, r), NoRet)
    /\ UNCHANGED retType

\* LuaVar h(std::move(r));
MoveConstruct(h, r) ==
    /\ Running
    /\ HasRoom(World) /\ h = NewObj(World) /\ alive[r]
    /\ Commit(Move(Construct(World, h, DefaultLuaState), h, r))
    /\ Did("MoveConstruct", AssignCase(World, h, r), NoRet)
    /\ UNCHANGED retType

\* h = r;
CopyAssign(h, r) ==
    /\ Running
    /\ alive[h] /\ alive[r]
    /\ CountRoom(World, r)
    /\ Commit(IF h = r THEN World ELSE Copy(World, h, r))
    /\ Did("CopyAssign", AssignCase(World, h, r), NoRet)
    /\ UNCHANGED retType

\* an operator=(LuaVar&&) without the test for self-assignment
MoveAssign_NoSelfTest(h, r) ==
    /\ Running
    /\ alive[h] /\ alive[r]
    /\ Commit(Move(World, h, r))
    /\ Did("MoveAssign", AssignCase(World, h, r), NoRet)
    /\ UNCHANGED retType

\* h = std::move(r);
MoveAssign(h, r) ==
    /\ Running
    /\ alive[h] /\ alive[r]
    /\ Commit(IF h = r THEN World ELSE Move(World, h, r))
    /\ Did("MoveAssign", AssignCase(World, h, r), NoRet)
    /\ UNCHANGED retType

\* h.ClearRef();
DoClearRef(h) ==
    /\ Running
    /\ alive[h]
    /\ Commit(ClearRef(World, h))
    /\ Did("ClearRef", ReleaseCase(World, h), NoRet)
    /\ UNCHANGED retType

\* h goes out of scope
Destroy(h) ==
    /\ Running
    /\ alive[h]
    /\ Commit(Destruct(World, h))
    /\ Did("Destroy", ReleaseCase(World, h), NoRet)
    /\ retType' = [retType EXCEPT ![h] = IF aborted' THEN @ ELSE "none"]

\* h.SetBool(v); h.SetInteger(v); h.SetString(v); h.SetLightUserData(v);
DoSetValue(h, nv) ==
    /\ Running
    /\ alive[h]
    /\ RefRoom(World) /\ NewRoom(World)
    /\ m_reference[h] # LUA_REFNIL => overwrites < MaxOverwrites
    /\ Commit(SetValue(World, h, nv))
    /\ Did("SetValue", IF m_reference[h] # LUA_REFNIL THEN "held" ELSE "fresh", NoRet)
    /\ UNCHANGED retType

\* h.SetNil();
DoSetNil(h) ==
    /\ Running
    /\ alive[h]
    /\ Commit(SetValueNil(World, h))
    /\ Did("SetNil", ReleaseCase(World, h), NoRet)
    /\ UNCHANGED retType

\* LuaFunction<R> h(r);  the LUA_ASSERT of the constructor is in debug builds
MakeFunction(h, r, R) ==
    /\ Running
    /\ HasRoom(World) /\ h = NewObj(World) /\ alive[r] /\ retType[r] = "none"
    /\ CountRoom(World, r)
    /\ LET w == Copy(Construct(World, h, DefaultLuaState), h, r)
       IN Commit(IF debugBuild /\ ~IsFunction(w, h) THEN Abort(w) ELSE w)
    /\ retType' = [retType EXCEPT ![h] = R]
    /\ Did("MakeFunction", IF IsFunction(World, r) THEN "fn" ELSE "notfn", NoRet)

\* R x = h(args...);
DoCallRetN(h, args, ub) ==
    /\ Running
    /\ alive[h] /\ retType[h] \in RetTypes \ {"void"}
    /\ LET r == CallRetN(World, h, retType[h], args, ub)
       IN Commit(r.w) /\ DidCall("CallRetN", CallCase(World, h, args), r)
    /\ UNCHANGED retType

\* R x = h();
DoCallRet0(h, ub) ==
    /\ Running
    /\ alive[h] /\ retType[h] \in RetTypes \ {"void"}
    /\ LET r == CallRet0(World, h, retType[h], ub)
       IN Commit(r.w) /\ DidCall("CallRet0", CallCase(World, h, <<>>), r)
    /\ UNCHANGED retType

\* h(args...);  with h a LuaFunction<void>
DoCallVoidN(h, args, ub) ==
    /\ Running
    /\ alive[h] /\ retType[h] = "void"
    /\ LET r == CallVoidN(World, h, args, ub)
       IN Commit(r.w) /\ DidCall("CallVoidN", CallCase(World, h, args), r)
    /\ UNCHANGED retType

\* h();  with h a LuaFunction<void>
DoCallVoid0(h, ub) ==
    /\ Running
    /\ alive[h] /\ retType[h] = "void"
    /\ LET r == CallVoid0(World, h, ub)
       IN Commit(r.w) /\ DidCall("CallVoid0", CallCase(World, h, <<>>), r)
    /\ UNCHANGED retType

\* an operation on tables: what it returned, the diagnostics it wrote and the
\* iterator object it left
DidIters(op, case, r, i, j) ==
    /\ last' = [op |-> op, case |-> case, ret |-> r.ret, diag |-> r.diag]
    /\ iter' = i
    /\ inner' = j
    /\ UNCHANGED <<overwrites, retType>>

\* the same for an operation that leaves the second iterator alone
DidIter(op, case, r, i) == DidIters(op, case, r, i, inner)

\* situation of an operation on the table behind h before it runs
TableCase(w, h) ==
    IF ~IsValid(w, h) THEN "nil"
    ELSE IF ~IsTable(w, h) THEN "nontable"
    ELSE IF Pairs(w, w.reg[w.ref[h]].v) = <<>> THEN "empty"
    ELSE "pairs"

\* the pair the iterator stands on, read through its two LuaVars
CurrentPair(w, it) == <<VarValue(w, it.key), VarValue(w, it.value)>>

\* the slots and blocks an iterator needs: key, value and the next key
IterRoom(w) ==
    /\ Cardinality({s \in Slots : w.reg[s].t \notin {"none", "free"}}) + 3 <= MaxTableSlots
    /\ Cardinality(w.live) + 3 <= MaxTableSlots

\* TableIterator it = h.begin();
Begin(h) ==
    /\ Running
    /\ alive[h] /\ ~iter.alive
    /\ IterRoom(World)
    /\ \E b \in {InternalBegin(World, h)} :
          /\ Commit(b.w)
          /\ DidIter("Begin", TableCase(World, h), [ret |-> NoRet, diag |-> b.diag],
                     [alive |-> TRUE, it |-> b.it, base |-> stack,
                      seen |-> IF b.it.m_isAtEnd THEN <<>>
                               ELSE <<CurrentPair(b.w, b.it)>>,
                      table |-> IF IsTable(World, h) THEN registry[m_reference[h]].v
                                ELSE 0])

\* ++it;  in a loop that runs while it != end
Advance ==
    /\ Running
    /\ iter.alive /\ IterNotEqual(iter.it, EndIter)
    /\ \E a \in {IterAdvance(World, iter.it)} :
          /\ Commit(a.w)
          /\ DidIter("Advance", IF a.it.m_isAtEnd THEN "end" ELSE "pair",
                     [ret |-> NoRet, diag |-> 0],
                     [iter EXCEPT !.it = a.it,
                                  !.seen = IF a.it.m_isAtEnd THEN @
                                           ELSE Append(@, CurrentPair(a.w, a.it))])

\* it goes out of scope
DestroyIter ==
    /\ Running
    /\ iter.alive
    /\ \E w \in {IterDestroy(World, iter.it)} : Commit(w)
    /\ DidIter("DestroyIter", IF iter.it.m_isAtEnd THEN "end" ELSE "pair",
               [ret |-> NoRet, diag |-> 0], NoIter)

\* size_t n = h.GetNumElements();
DoGetNumElements(h) ==
    /\ Running
    /\ alive[h] /\ ~iter.alive
    /\ IterRoom(World)
    /\ \E r \in {GetNumElements(World, h)} :
          Commit(r.w) /\ DidIter("GetNumElements", TableCase(World, h), r, iter)

\* what is remembered of a Lookup: the path it was given
LookedUp(path) == [k |-> "path", v |-> path]

\* LuaVar r = h.Lookup(path);
DoLookup(h, r, path) ==
    /\ Running
    /\ alive[h] /\ ~iter.alive
    /\ HasRoom(World) /\ r = NewObj(World)
    /\ IterRoom(World) /\ CountRoom(World, h)
    /\ \E l \in {Lookup(World, h, path)} :
          /\ Commit(IF l.w.aborted THEN l.w
                    ELSE [l.w EXCEPT !.alive[r] = TRUE, !.st[r] = l.var.st,
                                     !.ref[r] = l.var.ref, !.prc[r] = l.var.prc])
          /\ DidIter("Lookup", TableCase(World, h),
                     [ret |-> LookedUp(path), diag |-> l.diag], iter)

\* a script called a bound function: the call and what the trampoline made
\* of it (results reported, frame left, native invocations)
DidBound(op, call, r) ==
    /\ last' = [op |-> op, case |-> call,
                ret |-> [k |-> "bound", n |-> r.n, frame |-> r.w.stack, calls |-> r.calls],
                diag |-> r.diag]
    /\ UNCHANGED <<overwrites, retType, iter, inner>>

\* after the trampoline returned the runtime drops its frame
DropFrame(w) == [w EXCEPT !.stack = stack]

\* the script calls a bound free function: f(args)
ScriptCallsFunction(sig, args, nativeRet) ==
    /\ Running
    /\ \E r \in {CallBoundFunction([World EXCEPT !.stack = args], sig, nativeRet)} :
          /\ Commit(DropFrame(r.w))
          /\ DidBound("CallBoundFunction",
                      [sig |-> sig, args |-> args, obj |-> NullPtr, nativeRet |-> nativeRet], r)

\* the script calls a member function bound together with its object: f(args)
ScriptCallsObjPair(sig, pObj, args, nativeRet) ==
    /\ Running
    /\ \E r \in {CallBoundMemberFunctionObjPair([World EXCEPT !.stack = args], sig,
                                                  pObj, nativeRet)} :
          /\ Commit(DropFrame(r.w))
          /\ DidBound("CallBoundMemberFunctionObjPair",
                      [sig |-> sig, args |-> args, obj |-> pObj, nativeRet |-> nativeRet], r)

\* the script calls a member function whose object is resolved at call time:
\* obj:f(x1, ...) or f(args)
ScriptCallsMember(sig, args, nativeRet) ==
    /\ Running
    /\ \E r \in {CallBoundMemberFunction([World EXCEPT !.stack = args], sig, nativeRet)} :
          /\ Commit(DropFrame(r.w))
          /\ DidBound("CallBoundMemberFunction",
                      [sig |-> sig, args |-> args, obj |-> NullPtr, nativeRet |-> nativeRet], r)

\* bool r = (a op b);
DoCompare(a, b, op) ==
    /\ Running
    /\ alive[a] /\ alive[b]
    /\ \E r \in {Compare(World, a, b, op)} :
          /\ Commit(r.w)
          /\ DidIter("Compare", op,
                     [ret |-> NBool(IF r.ret THEN 1 ELSE 0), diag |-> 0], iter)

\* ----------------------------------------------------- fields of tables
\* the value the handle h refers to
Referent(w, h) == VarValue(w, HandleVar(w, h))

\* what the receiver h is before a table operation runs
ReceiverCase(w, h) ==
    IF w.ref[h] = LUA_REFNIL THEN "nil"
    ELSE IF Referent(w, h).t = "table" THEN "table"
    ELSE "nontable"

\* a call on a table leaves room for the handles it makes on the way
FieldRoom(w) ==
    /\ Cardinality({s \in Slots : w.reg[s].t \notin {"none", "free"}}) + 2 <= MaxSlots
    /\ Cardinality(w.live) + 2 <= MaxBlocks
HeapRoom == Len(heap) < MaxHeap
ObjectRoom == Cardinality({h \in Handles : alive[h]}) < MaxFieldObjects

\* an operation on the fields of h: its arguments and what it returned
DidField(op, a, r) == DidIter(op, a, r, iter)

\* the application pushes a value while fields are written
PushFieldVal(v) == Len(stack) < MaxFieldStack /\ PushValue(v)

\* h.CreateNewTable();
DoCreateNewTable(h) ==
    /\ Running
    /\ alive[h] /\ HeapRoom
    /\ RefRoom(World) /\ NewRoom(World)
    /\ Commit(CreateNewTable(World, h))
    /\ DidField("CreateNewTable", [h |-> h, on |-> ReleaseCase(World, h)],
                [ret |-> NoRet, diag |-> 0])

\* h.WrapObjectPtr(pPtr);
DoWrapObjectPtr(h, pPtr) ==
    /\ Running
    /\ alive[h]
    /\ RefRoom(World) /\ NewRoom(World)
    /\ Commit(WrapObjectPtr(World, h, pPtr))
    /\ DidField("WrapObjectPtr", [h |-> h, on |-> ReleaseCase(World, h), pPtr |-> pPtr],
                [ret |-> NoRet, diag |-> 0])

\* h.SetTableInteger<T>(key, val);
DoSetTableInteger(h, name, T, val) ==
    /\ Running
    /\ alive[h] /\ m_pState[h] # NullPtr
    /\ \E s \in {SetTableValue(World, HandleVar(World, h), Key(name),
                                LInt(static_cast("lua_Integer", val)))} :
          /\ Commit(s.w)
          /\ DidField("SetTableInteger",
                      [h |-> h, on |-> ReceiverCase(World, h), key |-> name, T |-> T,
                       val |-> val],
                      [ret |-> NoRet, diag |-> s.diag])

\* T v = h.GetTableInteger<T>(key);
DoGetTableInteger(h, name, T) ==
    /\ Running
    /\ alive[h] /\ m_pState[h] # NullPtr
    /\ \E g \in {GetTableValue(World, HandleVar(World, h), Key(name), "int")} :
          /\ Commit(g.w)
          /\ DidField("GetTableInteger",
                      [h |-> h, on |-> ReceiverCase(World, h), key |-> name, T |-> T],
                      [ret |-> NInt(static_cast(T, g.ret.v)), diag |-> g.diag])

\* h.SetTableNil(key);
DoSetTableNil(h, name) ==
    /\ Running
    /\ alive[h] /\ m_pState[h] # NullPtr
    /\ \E s \in {SetTableValue(World, HandleVar(World, h), Key(name), Nil)} :
          /\ Commit(s.w)
          /\ DidField("SetTableNil",
                      [h |-> h, on |-> ReceiverCase(World, h), key |-> name],
                      [ret |-> NoRet, diag |-> s.diag])

\* what the application sees of a LuaVar it was handed: IsNil() and the
\* value it refers to
Seen(w, var) == [k |-> "var", isNil |-> var.ref = LUA_REFNIL, v |-> VarValue(w, var)]

\* the LuaVar goes out of scope again
Drop(w, var) == IF w.aborted THEN w ELSE VarClearRef(w, var)

\* { LuaVar r = h.GetTableVar(key); }
DoGetTableVar(h, name) ==
    /\ Running
    /\ alive[h] /\ m_pState[h] # NullPtr
    /\ RefRoom(World) /\ NewRoom(World)
    /\ \E g \in {GetTableVar(World, HandleVar(World, h), name)} :
          /\ Commit(Drop(g.w, g.var))
          /\ DidField("GetTableVar",
                      [h |-> h, on |-> ReceiverCase(World, h), key |-> name],
                      [ret |-> Seen(g.w, g.var), diag |-> g.diag])

\* what the field key of the receiver h holds before an operation runs
FieldCase(w, h, key) ==
    IF ReceiverCase(w, h) # "table" THEN "-"
    ELSE LET def == Pairs(w, Referent(w, h).v)
             i   == PairIndex(def, key)
         IN IF i = 0 THEN "absent" ELSE IF def[i][2].t = "table" THEN "table" ELSE "other"

\* { LuaVar r = h.GetOrCreateNewTable(key); }
DoGetOrCreateNewTable(h, name) ==
    /\ Running
    /\ alive[h] /\ m_pState[h] # NullPtr
    /\ FieldRoom(World)
    /\ HeapRoom \/ FieldCase(World, h, Key(name)) \in {"table", "other"}
    /\ \E g \in {GetOrCreateNewTable(World, HandleVar(World, h), name)} :
          /\ Commit(Drop(g.w, g.var))
          /\ DidField("GetOrCreateNewTable",
                      [h |-> h, on |-> ReceiverCase(World, h), key |-> name,
                       had |-> FieldCase(World, h, Key(name))],
                      [ret |-> Seen(g.w, g.var), diag |-> g.diag])

\* { LuaVar r = h.Lookup(path); } on a handle that is not a table
LookupNonTable(h, path) ==
    /\ Running
    /\ alive[h] /\ m_pState[h] # NullPtr
    /\ ReceiverCase(World, h) # "table"
    /\ \E l \in {Lookup(World, h, path)} :
          /\ Commit(Drop(l.w, l.var))
          /\ DidField("Lookup", [h |-> h, on |-> ReceiverCase(World, h), path |-> path],
                      [ret |-> Seen(l.w, l.var), diag |-> l.diag])

\* h.Insert(val);
DoInsert(h, val) ==
    /\ Running
    /\ alive[h] /\ m_pState[h] # NullPtr
    /\ ReceiverCase(World, h) = "table" =>
          Referent(World, h).v < 0 /\ RawLength(World, Referent(World, h)) < MaxArray
    /\ \E s \in {Insert(World, HandleVar(World, h), LInt(static_cast("lua_Integer", val)))} :
          /\ Commit(s.w)
          /\ DidField("Insert", [h |-> h, on |-> ReceiverCase(World, h), val |-> val],
                      [ret |-> NoRet, diag |-> s.diag])

\* ------------------------------------------------- values of native types
\* what SetBool, SetInteger<T>, SetString and SetLightUserData hand to
\* SetValue for the argument val
NativeOf(X, val) ==
    CASE X = "Bool"          -> NBool(val)
      [] X = "Integer"       -> NInt(static_cast("lua_Integer", val))
      [] X = "String"        -> NStr(val)
      [] X = "LightUserData" -> NPtr(val)

\* the type GetBool, GetInteger<T>, GetString and GetLightUserData ask
\* GetValue for
TypeOf(X) ==
    CASE X = "Bool"          -> "bool"
      [] X = "Integer"       -> "int"
      [] X = "String"        -> "str"
      [] X = "LightUserData" -> "ptr"

\* h.GetBool(), h.GetInteger<T>(), h.GetString(), h.GetLightUserData()
GetX(w, x, X, T) ==
    LET g == GetValue(w, x, TypeOf(X))
    IN [w |-> g.w, diag |-> g.diag,
        ret |-> IF X = "Integer" THEN static_cast(T, g.ret.v) ELSE g.ret.v]

\* why the handle h has no value
NilCase(w, h) ==
    IF w.ref[h] # LUA_REFNIL THEN "value"
    ELSE IF w.st[h] = NullPtr THEN "moved"
    ELSE "nil"

\* h.SetBool(val); h.SetInteger<T>(val); h.SetString(val);
\* h.SetLightUserData(val);  on a nil handle
DoSetX(h, X, T, val) ==
    /\ Running
    /\ alive[h] /\ m_pState[h] # NullPtr /\ m_reference[h] = LUA_REFNIL
    /\ RefRoom(World) /\ NewRoom(World)
    /\ Commit(SetValue(World, h, NativeOf(X, val)))
    /\ DidField("SetX", [h |-> h, X |-> X, T |-> T, val |-> val],
                [ret |-> NoRet, diag |-> 0])

\* h.GetBool(); h.GetInteger<T>(); h.GetString(); h.GetLightUserData();
DoGetX(h, X, T) ==
    /\ Running
    /\ alive[h] /\ m_pState[h] # NullPtr /\ m_reference[h] # LUA_REFNIL
    /\ \E g \in {GetX(World, HandleVar(World, h), X, T)} :
          /\ Commit(g.w)
          /\ DidField("GetX", [h |-> h, X |-> X, T |-> T],
                      [ret |-> [k |-> TypeOf(X), v |-> g.ret], diag |-> g.diag])

\* h.IsInteger(); .. h.IsTable();
DoIsX(h, X) ==
    /\ Running
    /\ alive[h]
    /\ \E r \in {IsX(World, HandleVar(World, h), X)} :
          /\ Commit(r.w)
          /\ DidField("IsX", [h |-> h, X |-> X, on |-> NilCase(World, h)],
                      [ret |-> r.ret, diag |-> 0])

\* h.IsNil();
DoIsNil(h) ==
    /\ Running
    /\ alive[h]
    /\ Commit(World)
    /\ DidField("IsNil", [h |-> h, on |-> NilCase(World, h)],
                [ret |-> IsNil(World, h), diag |-> 0])

InitWorld ==
    [alive |-> [h \in Handles |-> FALSE],
     st |-> [h \in Handles |-> NullPtr],
     ref |-> [h \in Handles |-> LUA_REFNIL],
     prc |-> [h \in Handles |-> NullPtr],
     cnt |-> [b \in Blocks |-> 0],
     live |-> {},
     freeBlocks |-> <<>>,
     reg |-> [s \in Slots |-> Unused],
     freeHead |-> 0,
     stack |-> <<>>,
     aborted |-> FALSE,
     misuse |-> FALSE,
     debug |-> FALSE,
     heap |-> <<NewTable>>]

Init ==
    /\ alive = InitWorld.alive
    /\ m_pState = InitWorld.st
    /\ m_reference = InitWorld.ref
    /\ m_pRefCount = InitWorld.prc
    /\ m_refCount = InitWorld.cnt
    /\ allocated = InitWorld.live
    /\ freeBlocks = InitWorld.freeBlocks
    /\ registry = InitWorld.reg
    /\ freeHead = InitWorld.freeHead
    /\ stack = InitWorld.stack
    /\ aborted = FALSE
    /\ misuse = FALSE
    /\ debugBuild \in BOOLEAN
    /\ overwrites = 0
    /\ retType = [h \in Handles |-> "none"]
    /\ iter = NoIter
    /\ inner = NoIter
    /\ heap = InitWorld.heap
    /\ last = [op |-> "Init", case |-> "-", ret |-> NoRet, diag |-> 0]

\* the handle lifecycle operations alone
NextLifecycle ==
    \/ \E v \in PushVals : PushValue(v)
    \/ \E h \in Handles : DefaultConstruct(h)
    \/ \E h \in Handles : CreateFromStack(h)
    \/ \E h, r \in Handles : CopyConstruct(h, r)
    \/ \E h, r \in Handles : MoveConstruct(h, r)
    \/ \E h, r \in Handles : CopyAssign(h, r)
    \/ \E h, r \in Handles : MoveAssign(h, r)
    \/ \E h \in Handles : DoClearRef(h)
    \/ \E h \in Handles : Destroy(h)

SpecLifecycle == Init /\ [][NextLifecycle]_vars

\* the operations that give a handle a value or take it away
Next ==
    \/ \E v \in PushVals : PushValue(v)
    \/ \E h \in Handles : DefaultConstruct(h)
    \/ \E h \in Handles : CreateFromStack(h)
    \/ \E h, r \in Handles : CopyConstruct(h, r)
    \/ \E h \in Handles, nv \in SetArgs : DoSetValue(h, nv)
    \/ \E h \in Handles : DoSetNil(h)
    \/ \E h \in Handles : DoClearRef(h)
    \/ \E h \in Handles : Destroy(h)

Spec == Init /\ [][Next]_vars

\* calls of script functions through LuaFunction wrappers
CallRoom == Cardinality({h \in Handles : alive[h]}) < MaxCallObjects

\* LuaVar h = LuaVar::CreateFromStack(pState);  while calls are made
CreateVar(h) == CallRoom /\ CreateFromStack(h)

\* LuaFunction<R> h(r);  while calls are made
WrapVar(h, r, R) == CallRoom /\ MakeFunction(h, r, R)

NextCall ==
    \/ \E v \in ScriptVals : PushValue(v)
    \/ \E h \in Handles : CreateVar(h)
    \/ \E h, r \in Handles, R \in RetTypes : WrapVar(h, r, R)
    \/ \E h \in Handles, args \in ArgLists, ub \in UBOutcomes : DoCallRetN(h, args, ub)
    \/ \E h \in Handles, ub \in UBOutcomes : DoCallRet0(h, ub)
    \/ \E h \in Handles, args \in ArgLists, ub \in UBOutcomes : DoCallVoidN(h, args, ub)
    \/ \E h \in Handles, ub \in UBOutcomes : DoCallVoid0(h, ub)
    \/ \E h \in Handles : Destroy(h)

SpecCall == Init /\ [][NextCall]_vars

\* --------------------------------------------- the protected call's site
SiteVals == {LInt(7), LFn(1), LFn(2)}
SiteArgs == {<<NInt(7)>>, <<NStr(NullPtr), NInt(7)>>, <<NInt(3), NBool(1), NInt(7)>>}
SiteRets == {"void", "int"}

\* a call through the wrapper h was made: the stack before it, the
\* arguments, the site of its protected call and what it returned
DidSite(op, h, args, site, r) ==
    DidCall(op, [fn |-> CallCase(World, h, args), R |-> retType[h], args |-> args,
                 base |-> stack, site |-> site], r)

\* R x = h(args...);  h wraps a function
SiteCallRetN(h, args) ==
    /\ Running
    /\ alive[h] /\ retType[h] \in RetTypes \ {"void"} /\ IsFunction(World, h)
    /\ \E r \in {CallRetN(World, h, retType[h], args, "survive")} :
          Commit(r.w) /\ DidSite("CallRetN", h, args, SiteRetN(World, h, args), r)
    /\ UNCHANGED retType

\* R x = h();  h wraps a function
SiteCallRet0(h) ==
    /\ Running
    /\ alive[h] /\ retType[h] \in RetTypes \ {"void"} /\ IsFunction(World, h)
    /\ \E r \in {CallRet0(World, h, retType[h], "survive")} :
          Commit(r.w) /\ DidSite("CallRet0", h, <<>>, SiteRet0(World, h), r)
    /\ UNCHANGED retType

\* h(args...);  h a LuaFunction<void> that wraps a function
SiteCallVoidN(h, args) ==
    /\ Running
    /\ alive[h] /\ retType[h] = "void" /\ IsFunction(World, h)
    /\ \E r \in {CallVoidN(World, h, args, "survive")} :
          Commit(r.w) /\ DidSite("CallVoidN", h, args, SiteVoidN(World, h, args), r)
    /\ UNCHANGED retType

\* h();  h a LuaFunction<void> that wraps a function
SiteCallVoid0(h) ==
    /\ Running
    /\ alive[h] /\ retType[h] = "void" /\ IsFunction(World, h)
    /\ \E r \in {CallVoid0(World, h, "survive")} :
          Commit(r.w) /\ DidSite("CallVoid0", h, <<>>, SiteVoid0(World, h), r)
    /\ UNCHANGED retType

NextSite ==
    \/ \E v \in SiteVals : PushValue(v)
    \/ \E h \in Handles : CreateVar(h)
    \/ \E h, r \in Handles, R \in SiteRets : WrapVar(h, r, R)
    \/ \E h \in Handles, args \in SiteArgs : SiteCallRetN(h, args)
    \/ \E h \in Handles : SiteCallRet0(h)
    \/ \E h \in Handles, args \in SiteArgs : SiteCallVoidN(h, args)
    \/ \E h \in Handles : SiteCallVoid0(h)
    \/ \E h \in Handles : Destroy(h)

SpecSite == Init /\ [][NextSite]_vars

\* reading tables: iteration, element counts
TableVals == {Nil, LInt(7), LTab(0), LTab(1), LTab(4)}
TableRoom == Cardinality({h \in Handles : alive[h]}) < MaxTableObjects
NoOpenIter == ~iter.alive
\* "", "a", "a.b", "a.b.c", "a.x.c", "x.b", "c"
Paths == {<<>>, <<1>>, <<1, Dot, 2>>, <<1, Dot, 2, Dot, 3>>, <<1, Dot, 4, Dot, 3>>,
          <<4, Dot, 2>>, <<3>>}

\* LuaVar r = h.Lookup(path);  while tables are read
LookupVar(h, r, path) == TableRoom /\ DoLookup(h, r, path)

\* the script leaves a value on the stack
PushTableVal(v) == NoOpenIter /\ Len(stack) < MaxTableStack /\ PushValue(v)

\* LuaVar h = LuaVar::CreateFromStack(pState);  while tables are read
CreateTableVar(h) == NoOpenIter /\ TableRoom /\ CreateFromStack(h)

\* h goes out of scope while no iterator is open
DestroyTableVar(h) == NoOpenIter /\ Destroy(h)

NextTable ==
    \/ \E v \in TableVals : PushTableVal(v)
    \/ \E h \in Handles : CreateTableVar(h)
    \/ \E h \in Handles : DestroyTableVar(h)
    \/ \E h \in Handles : Begin(h)
    \/ Advance
    \/ DestroyIter
    \/ \E h \in Handles : DoGetNumElements(h)
    \/ \E h, r \in Handles, path \in Paths : LookupVar(h, r, path)

SpecTable == Init /\ [][NextTable]_vars

\* Lookup with paths that have empty pieces:
\* ".a", "a.", "a..b", ".", "..", "a.b.", "a.b", "a", ""
DottedPaths == {<<Dot, 1>>, <<1, Dot>>, <<1, Dot, Dot, 2>>, <<Dot>>, <<Dot, Dot>>,
                <<1, Dot, 2, Dot>>, <<1, Dot, 2>>, <<1>>, <<>>}

\* LuaVar r = h.Lookup(path);
LookupDotted(h, r, path) == TableRoom /\ DoLookup(h, r, path)

NextPath ==
    \/ \E v \in TableVals : PushTableVal(v)
    \/ \E h \in Handles : CreateTableVar(h)
    \/ \E h \in Handles : DestroyTableVar(h)
    \/ \E h, r \in Handles, path \in DottedPaths : LookupDotted(h, r, path)

SpecPath == Init /\ [][NextPath]_vars

\* writing and reading the fields of tables made at run time
FieldVals  == {LInt(7)}
FieldPaths == {<<1>>, <<1, Dot, 2>>}        \* "a", "a.b"
FieldNames == {<<1>>, <<2>>}                \* "a", "b"
FieldInts  == {<<"lua_Integer", 0>>, <<"lua_Integer", -1>>,
               <<"lua_Unsigned", 2^IntBits - 1>>}

\* LuaVar h; / LuaVar h = LuaVar::CreateFromStack(pState); while fields are
\* written
NewFieldVar(h) == ObjectRoom /\ DefaultConstruct(h)
CreateFieldVar(h) == ObjectRoom /\ CreateFromStack(h)

\* h.CreateNewTable(); while fields are written
CreateFieldTable(h) == Len(heap) <= MaxCreated /\ DoCreateNewTable(h)

\* h.GetNumElements() on a handle that is not a table
CountNonTable(h) ==
    /\ m_pState[h] # NullPtr /\ ReceiverCase(World, h) # "table"
    /\ DoGetNumElements(h)

NextField ==
    \/ \E v \in FieldVals : PushFieldVal(v)
    \/ \E h \in Handles : NewFieldVar(h)
    \/ \E h \in Handles : CreateFieldVar(h)
    \/ \E h \in Handles : Destroy(h)
    \/ \E h \in Handles : CreateFieldTable(h)
    \/ \E h \in Handles, k \in FieldNames, a \in FieldInts :
          DoSetTableInteger(h, k, a[1], a[2])
    \/ \E h \in Handles, k \in FieldNames, T \in IntTypes : DoGetTableInteger(h, k, T)
    \/ \E h \in Handles, k \in FieldNames : DoSetTableNil(h, k)
    \/ \E h \in Handles, k \in FieldNames : DoGetTableVar(h, k)
    \/ \E h \in Handles, k \in FieldNames : DoGetOrCreateNewTable(h, k)
    \/ \E h \in Handles : DoInsert(h, 0)
    \/ \E h \in Handles : CountNonTable(h)
    \/ \E h \in Handles, path \in FieldPaths : LookupNonTable(h, path)

SpecField == Init /\ [][NextField]_vars

\* handles that share slots are given new tables and wrapped objects
Pointers == {NullPtr, 1}

\* LuaVar h(r); while at most MaxTableObjects handles are alive
CopyTableVar(h, r) == TableRoom /\ CopyConstruct(h, r)

NextCreate ==
    \/ \E v \in PushVals : PushTableVal(v)
    \/ \E h \in Handles : CreateTableVar(h)
    \/ \E h, r \in Handles : CopyTableVar(h, r)
    \/ \E h \in Handles : DestroyTableVar(h)
    \/ \E h \in Handles : DoCreateNewTable(h)
    \/ \E h \in Handles, p \in Pointers : DoWrapObjectPtr(h, p)

SpecCreate == Init /\ [][NextCreate]_vars

\* handles get values of the native types and are asked for their type
\* (ValueVals: what the nil-handle specification pushes)
ValueVals == {Nil, LTab(0)}
SetInputs ==
    {<<"Bool", "bool", 0>>, <<"Bool", "bool", 1>>,
     <<"Integer", "lua_Integer", 0>>, <<"Integer", "lua_Integer", -1>>,
     <<"Integer", "lua_Integer", 2^(IntBits - 1) - 1>>,
     <<"Integer", "lua_Integer", -(2^(IntBits - 1))>>,
     <<"Integer", "lua_Unsigned", 2^IntBits - 1>>,
     <<"String", "str", EmptyText.v>>, <<"String", "str", Key(<<1>>).v>>,
     <<"LightUserData", "ptr", NullPtr>>, <<"LightUserData", "ptr", 1>>}

GetInputs == {<<a[1], a[2]>> : a \in SetInputs}

NextValue ==
    \/ \E v \in FieldVals \cup {Nil} : PushFieldVal(v)
    \/ \E h \in Handles : NewFieldVar(h)
    \/ \E h \in Handles : CreateFieldVar(h)
    \/ \E h \in Handles : DoClearRef(h)
    \/ \E h \in Handles : Destroy(h)
    \/ \E h \in Handles, a \in SetInputs : DoSetX(h, a[1], a[2], a[3])
    \/ \E h \in Handles, a \in GetInputs : DoGetX(h, a[1], a[2])
    \/ \E h \in Handles, X \in Predicates : DoIsX(h, X)
    \/ \E h \in Handles : DoIsNil(h)

SpecValue == Init /\ [][NextValue]_vars

\* handles without a value are asked for their type
\* LuaVar h; / LuaVar h(std::move(r)); while at most MaxTableObjects handles
\* are alive
NewTableVar(h) == TableRoom /\ DefaultConstruct(h)
MoveTableVar(h, r) == TableRoom /\ MoveConstruct(h, r)

NextNil ==
    \/ \E v \in ValueVals : PushTableVal(v)
    \/ \E h \in Handles : NewTableVar(h)
    \/ \E h \in Handles : CreateTableVar(h)
    \/ \E h, r \in Handles : MoveTableVar(h, r)
    \/ \E h \in Handles : DoClearRef(h)
    \/ \E h \in Handles : DestroyTableVar(h)
    \/ \E h \in Handles, X \in Predicates : DoIsX(h, X)
    \/ \E h \in Handles : DoIsNil(h)

SpecNil == Init /\ [][NextNil]_vars

\* ---------------------------------------------------------------- chunks
\* source text by what it does: "ok" compiles and runs to its end, "syntax"
\* does not compile, "raise_str" is error("text"), "raise_obj" is error({});
\* "nofile" is the path of a file that cannot be opened
ChunkKinds == {"ok", "syntax", "raise_str", "raise_obj"}
FileKinds  == ChunkKinds \cup {"nofile"}
FailingKinds == FileKinds \ {"ok"}

\* the function a chunk compiles to
ChunkFn(c) ==
    CASE c = "ok" -> LFn(1)
      [] c = "raise_str" -> LFn(2)
      [] c = "raise_obj" -> LFn(3)
      [] c = "returns" -> LFn(4)

\* &OnLuaException of LuaState.cpp, the message handler DoFile installs; it
\* builds its message as BaseLuaFunction::OnLuaException does
StateExHandler == [t |-> "cfn", v |-> "OnLuaException"]

\* luaL_loadstring: the compiled chunk, or the compiler's message
luaL_loadstring(w, c) ==
    IF c = "syntax"
    THEN [w |-> [w EXCEPT !.stack = Append(w.stack, LStr(2))], status |-> "LUA_ERRSYNTAX"]
    ELSE [w |-> [w EXCEPT !.stack = Append(w.stack, ChunkFn(c))], status |-> "LUA_OK"]

\* luaL_loadfile: as luaL_loadstring, or the message that the file cannot
\* be opened
luaL_loadfile(w, c) ==
    IF c = "nofile"
    THEN [w |-> [w EXCEPT !.stack = Append(w.stack, LStr(3))], status |-> "LUA_ERRFILE"]
    ELSE luaL_loadstring(w, c)

\* luaL_dostring: luaL_loadstring(L, s) || lua_pcall(L, 0, LUA_MULTRET, 0)
luaL_dostring(w, c, ub) ==
    LET l == luaL_loadstring(w, c)
    IN IF l.status # "LUA_OK" THEN l ELSE lua_pcall(l.w, 0, -1, 0, ub)

\* _SHOW_LUA_ERROR: the message is appended to a string without a check;
\* appending the NULL of a non-string error value is undefined
SHOW_LUA_ERROR(w, ub) ==
    IF lua_tostring(Top(w.stack)) = NullPtr /\ ub = "crash"
    THEN Abort(w)
    ELSE [w EXCEPT !.stack = Pop(w.stack, 1)]

\* what a call hands back: nothing when the process ended in it
Returned(w, ret, diag) ==
    [w |-> w, ret |-> IF w.aborted THEN NoRet ELSE ret, diag |-> diag]

\* LuaState::DoString
DoString(w, c, ub) ==
    LET r == luaL_dostring(w, c, ub)
    IN IF r.status # "LUA_OK"
       THEN Returned(SHOW_LUA_ERROR(r.w, ub), NBool(0), 1)
       ELSE Returned(r.w, NBool(1), 0)

\* LuaState::DoFile; the StackResetter restores the top on every return
DoFile(w, c, ub) ==
    LET oldTop == Len(w.stack)
        w1 == [w EXCEPT !.stack = Append(w.stack, StateExHandler)]
        l  == luaL_loadfile(w1, c)
    IN IF l.status # "LUA_OK"
       THEN Returned(lua_settop(l.w, oldTop), NBool(0), 1)
       ELSE LET r == lua_pcall(l.w, 0, 0, -2, ub)
            IN IF r.w.aborted THEN Returned(r.w, NoRet, 0)
               ELSE IF r.status # "LUA_OK"
                    THEN Returned(lua_settop(r.w, oldTop), NBool(0), 1)
                    ELSE Returned(lua_settop(r.w, oldTop), NBool(1), 0)

\* pState->DoString(str);
DoDoString(c, ub) ==
    /\ Running
    /\ \E r \in {DoString(World, c, ub)} : Commit(r.w) /\ DidCall("DoString", c, r)
    /\ UNCHANGED retType

\* pState->DoFile(path);
DoDoFile(c, ub) ==
    /\ Running
    /\ \E r \in {DoFile(World, c, ub)} : Commit(r.w) /\ DidCall("DoFile", c, r)
    /\ UNCHANGED retType

NextChunk ==
    \/ \E v \in ScriptVals : PushValue(v)
    \/ \E c \in ChunkKinds, ub \in UBOutcomes : DoDoString(c, ub)
    \/ \E c \in FileKinds, ub \in UBOutcomes : DoDoFile(c, ub)

SpecChunk == Init /\ [][NextChunk]_vars

\* ------------------------------------------------- loading and running text
\* "x = 1", "x = = 1", "return 7"
LoadKinds == {"ok", "syntax", "returns"}
MaxLoadStack == 3    \* stack depth at which no more chunks are run
MaxLoadObjects == 2  \* handles alive at once while text is loaded

\* LuaState::LoadString: luaL_loadbuffer as luaL_loadstring; on failure the
\* message is read, written as a diagnostic, and LuaVar() is returned
LoadString(w, h, c) ==
    LET l == luaL_loadstring(w, c)
    IN IF l.status # "LUA_OK"
       THEN [w |-> Construct(l.w, h, DefaultLuaState), ret |-> NoRet, diag |-> 1]
       ELSE [w |-> CreateRegisteryEntryFromStack(Construct(l.w, h, DefaultLuaState), h),
             ret |-> NoRet, diag |-> 0]

\* LuaVar h = pState->LoadString(str);
DoLoadString(h, c) ==
    /\ Running
    /\ HasRoom(World) /\ h = NewObj(World)
    /\ Cardinality({g \in Handles : alive[g]}) < MaxLoadObjects
    /\ RefRoom(World) /\ NewRoom(World)
    /\ Len(stack) < MaxLoadStack
    /\ \E r \in {LoadString(World, h, c)} : Commit(r.w) /\ DidCall("LoadString", c, r)
    /\ UNCHANGED retType

\* pState->DoString(str);  while the stack is not deep
RunString(c) == Len(stack) < MaxLoadStack /\ DoDoString(c, "survive")

NextLoad ==
    \/ \E v \in {LInt(7), LFn(2)} : PushValue(v)
    \/ \E h \in Handles, c \in LoadKinds : DoLoadString(h, c)
    \/ \E c \in LoadKinds : RunString(c)
    \/ \E h \in Handles : Destroy(h)

SpecLoad == Init /\ [][NextLoad]_vars

\* ------------------------------------------------- every handle operation
\* var.GetTypeName();
DoGetTypeName(h) ==
    /\ Running
    /\ alive[h] /\ m_pState[h] # NullPtr
    /\ Commit(GetTypeName(World, HandleVar(World, h)))
    /\ DidField("GetTypeName", [h |-> h, on |-> ReceiverCase(World, h)],
                [ret |-> NoRet, diag |-> 0])

\* var.SetNewTable(name);  the returned handle is a temporary
DoSetNewTable(h, name) ==
    /\ Running
    /\ alive[h] /\ m_pState[h] # NullPtr
    /\ FieldRoom(World) /\ HeapRoom
    /\ \E g \in {SetNewTable(World, HandleVar(World, h), Key(name))} :
          /\ Commit(Drop(g.w, g.var))
          /\ DidField("SetNewTable",
                      [h |-> h, on |-> ReceiverCase(World, h), key |-> name],
                      [ret |-> Seen(g.w, g.var), diag |-> g.diag])

\* var.GetVarAt(index);  var[index];  on a table, as the operation requires
DoGetVarAt(h, index) ==
    /\ Running
    /\ alive[h] /\ m_pState[h] # NullPtr
    /\ ReceiverCase(World, h) = "table"
    /\ FieldRoom(World)
    /\ \E g \in {GetVarAt(World, HandleVar(World, h), index)} :
          /\ Commit(Drop(g.w, g.var))
          /\ DidField("GetVarAt",
                      [h |-> h, on |-> ReceiverCase(World, h), index |-> index],
                      [ret |-> Seen(g.w, g.var), diag |-> 0])

\* var.GetLength();
DoGetLength(h) ==
    /\ Running
    /\ alive[h] /\ m_pState[h] # NullPtr
    /\ \E g \in {GetLength(World, HandleVar(World, h))} :
          /\ Commit(g.w)
          /\ DidField("GetLength", [h |-> h, on |-> ReceiverCase(World, h)],
                      [ret |-> g.ret, diag |-> 0])

\* a table made at run time
IsNewTable(w, h) == ReceiverCase(w, h) = "table" /\ Referent(w, h).v < 0

\* var.SetMetaTable(mt);  both are tables, as the operation requires
DoSetMetaTable(h, mt) ==
    /\ Running
    /\ alive[h] /\ alive[mt]
    /\ IsNewTable(World, h) /\ IsNewTable(World, mt)
    /\ Commit(SetMetaTable(World, HandleVar(World, h), HandleVar(World, mt)))
    /\ DidField("SetMetaTable", [h |-> h, mt |-> mt], [ret |-> NoRet, diag |-> 0])

\* var.GetMetaTable();  on a table, as the operation requires
DoGetMetaTable(h) ==
    /\ Running
    /\ alive[h] /\ IsNewTable(World, h)
    /\ FieldRoom(World)
    /\ \E g \in {GetMetaTable(World, HandleVar(World, h))} :
          /\ Commit(Drop(g.w, g.var))
          /\ DidField("GetMetaTable", [h |-> h, on |-> ReceiverCase(World, h)],
                      [ret |-> Seen(g.w, g.var), diag |-> 0])

\* var.BindFunction(name, func);  on a table, as the operation requires
DoBindFunction(h, name, trampoline) ==
    /\ Running
    /\ alive[h] /\ IsNewTable(World, h)
    /\ Commit(BindFunction(World, HandleVar(World, h), name, trampoline))
    /\ DidField("BindFunction", [h |-> h, name |-> name, trampoline |-> trampoline],
                [ret |-> NoRet, diag |-> 0])

\* pState->GetGlobal<lua_Integer>(key);
DoGetGlobal(key) ==
    /\ Running
    /\ \E g \in {GetGlobal(World, key, "int")} :
          /\ Commit(g.w)
          /\ DidField("GetGlobal", [key |-> key, T |-> "int"],
                      [ret |-> g.ret, diag |-> g.diag])

\* pState->GetGlobal<LuaVar>(key);  the returned handle is a temporary
DoGetGlobalVar(key) ==
    /\ Running
    /\ FieldRoom(World)
    /\ \E g \in {GetGlobalVar(World, key)} :
          /\ Commit(Drop(g.w, g.var))
          /\ DidField("GetGlobal", [key |-> key, T |-> "LuaVar"],
                      [ret |-> Seen(g.w, g.var), diag |-> g.diag])

\* pState->SetGlobal(key, value);
DoSetGlobal(key, v) ==
    /\ Running
    /\ Commit(SetGlobal(World, key, v))
    /\ DidField("SetGlobal", [key |-> key, v |-> v], [ret |-> NoRet, diag |-> 0])

\* var.Lookup(path);  the returned handle is a temporary
LookupField(h, path) ==
    /\ Running
    /\ alive[h] /\ m_pState[h] # NullPtr
    /\ FieldRoom(World)
    /\ \E l \in {Lookup(World, h, path)} :
          /\ Commit(Drop(l.w, l.var))
          /\ DidField("Lookup", [h |-> h, on |-> ReceiverCase(World, h), path |-> path],
                      [ret |-> Seen(l.w, l.var), diag |-> l.diag])

\* var.GetNumElements();
CountField(h) == m_pState[h] # NullPtr /\ DoGetNumElements(h)

\* a == a, a < a, ...
CompareField(h, op) == m_pState[h] # NullPtr /\ DoCompare(h, h, op)

\* the table operations that make a table, on a table as they require
SetNewField(h, name) == IsNewTable(World, h) /\ DoSetNewTable(h, name)
GetOrCreateField(h, name) == IsNewTable(World, h) /\ DoGetOrCreateNewTable(h, name)

\* var.WrapObjectPtr(pPtr);  on a handle that holds nothing
WrapNilVar(h, pPtr) == m_reference[h] = LUA_REFNIL /\ DoWrapObjectPtr(h, pPtr)

GlobalKeys == {NullPtr, Key(<<1>>).v}

NextStack ==
    \/ \E v \in FieldVals : PushFieldVal(v)
    \/ \E h \in Handles : NewFieldVar(h)
    \/ \E h \in Handles : CreateFieldVar(h)
    \/ \E h \in Handles : CreateFieldTable(h)
    \/ \E h \in Handles : WrapNilVar(h, 1)
    \/ \E h \in Handles : DoSetX(h, "Integer", "lua_Integer", 0)
    \/ \E h \in Handles : DoGetX(h, "Integer", "lua_Integer")
    \/ \E h \in Handles, X \in {"Integer", "Table"} : DoIsX(h, X)
    \/ \E h \in Handles : DoGetTypeName(h)
    \/ \E h \in Handles : DoSetTableInteger(h, <<1>>, "lua_Integer", 0)
    \/ \E h \in Handles : DoGetTableInteger(h, <<1>>, "lua_Integer")
    \/ \E h \in Handles : DoGetTableVar(h, <<2>>)
    \/ \E h \in Handles : SetNewField(h, <<2>>)
    \/ \E h \in Handles : GetOrCreateField(h, <<2>>)
    \/ \E h \in Handles : DoInsert(h, 0)
    \/ \E h \in Handles : DoGetVarAt(h, LInt(1))
    \/ \E h \in Handles : DoGetLength(h)
    \/ \E h \in Handles : CountField(h)
    \/ \E h \in Handles : LookupField(h, <<2, Dot, 1>>)
    \/ \E h \in Handles, op \in {"==", "<"} : CompareField(h, op)
    \/ \E h \in Handles : DoSetMetaTable(h, h)
    \/ \E h \in Handles : DoGetMetaTable(h)
    \/ \E h \in Handles : DoBindFunction(h, <<1>>, "CallBoundFunction")
    \/ \E key \in GlobalKeys : DoGetGlobal(key)
    \/ DoGetGlobalVar(Key(<<1>>).v)
    \/ DoSetGlobal(Key(<<1>>).v, LInt(7))

SpecStack == Init /\ [][NextStack]_vars

\* ----------------------------------------------------------- nested loops
NestVals == {LTab(2), LTab(4), LFn(1)}

\* n more registry slots and RefCount blocks can be taken
SlotRoom(w, n) ==
    /\ Cardinality({s \in Slots : w.reg[s].t \notin {"none", "free"}}) + n <= MaxSlots
    /\ Cardinality(w.live) + n <= MaxBlocks

\* what the application notes of a loop: the iterator, the stack before
\* begin(), the pairs yielded and the table
Loop(w, h, b) ==
    [alive |-> TRUE, it |-> b.it, base |-> w.stack,
     seen |-> IF b.it.m_isAtEnd THEN <<>> ELSE <<CurrentPair(b.w, b.it)>>,
     table |-> IF IsTable(w, h) THEN w.reg[w.ref[h]].v ELSE 0]

\* handles of a value of type t
HandlesOf(t) == {g \in Handles : alive[g] /\ IsValid(World, g) /\ registry[m_reference[g]].t = t}

\* LuaVar h = LuaVar::CreateFromStack(pState);  before the loops: two tables,
\* or one table and one function
CreateNestVar(h) ==
    /\ NoOpenIter /\ stack # <<>>
    /\ HandlesOf(stack[Len(stack)].t) = {}
         \/ (Cardinality(HandlesOf("table")) = 1 /\ HandlesOf("fn") = {})
    /\ CreateFromStack(h)

\* the body of the outer loop is running and no inner loop is open
InBody == iter.alive /\ ~iter.it.m_isAtEnd /\ ~inner.alive

\* no registry slot and no RefCount block was given back yet
FirstLoop == freeHead = 0 /\ freeBlocks = <<>>

\* for (auto it = h.begin(); ...   the outer loop, the first loop of the run
BeginOuter(h) ==
    /\ Running /\ FirstLoop
    /\ alive[h] /\ IsTable(World, h) /\ ~iter.alive /\ ~inner.alive
    /\ SlotRoom(World, 5)
    /\ \E b \in {InternalBegin(World, h)} :
          /\ Commit(b.w)
          /\ DidIter("Begin", TableCase(World, h), [ret |-> NoRet, diag |-> b.diag],
                     Loop(World, h, b))

\* ++it of the outer loop, after the body
AdvanceOuter == ~inner.alive /\ Advance

\* the outer loop is left
DestroyOuter == ~inner.alive /\ DestroyIter

\* for (auto in = g.begin(); ...   in the body of the outer loop
BeginInner(h) ==
    /\ Running
    /\ alive[h] /\ IsTable(World, h) /\ InBody
    /\ SlotRoom(World, 3)
    /\ \E b \in {InternalBegin(World, h)} :
          /\ Commit(b.w)
          /\ DidIters("BeginInner", TableCase(World, h),
                      [ret |-> NoRet, diag |-> b.diag], iter, Loop(World, h, b))

\* ++in of the inner loop
AdvanceInner ==
    /\ Running
    /\ inner.alive /\ IterNotEqual(inner.it, EndIter)
    /\ \E a \in {IterAdvance(World, inner.it)} :
          /\ Commit(a.w)
          /\ DidIters("AdvanceInner", IF a.it.m_isAtEnd THEN "end" ELSE "pair",
                      [ret |-> NoRet, diag |-> 0], iter,
                      [inner EXCEPT !.it = a.it,
                                    !.seen = IF a.it.m_isAtEnd THEN @
                                             ELSE Append(@, CurrentPair(a.w, a.it))])

\* the inner loop is left, at its end or by a break
DestroyInner ==
    /\ Running
    /\ inner.alive
    /\ \E w \in {IterDestroy(World, inner.it)} : Commit(w)
    /\ DidIters("DestroyInner", IF inner.it.m_isAtEnd THEN "end" ELSE "pair",
                [ret |-> NoRet, diag |-> 0], iter, NoIter)

\* h.GetNumElements();  in the body of the outer loop
CountInBody(h) ==
    /\ Running
    /\ alive[h] /\ IsTable(World, h) /\ InBody
    /\ SlotRoom(World, 3)
    /\ \E r \in {GetNumElements(World, h)} :
          Commit(r.w) /\ DidIter("GetNumElements", TableCase(World, h), r, iter)

\* h.GetTableValue<lua_Integer>("a");  in the body of the outer loop
GetInBody(h) == InBody /\ IsTable(World, h) /\ DoGetTableInteger(h, <<1>>, "lua_Integer")

\* LuaFunction<void> h(r);  before the loops
WrapBeforeLoop(h, r) == ~iter.alive /\ IsFunction(World, r) /\ MakeFunction(h, r, "void")

\* h(7);  in the body of the outer loop
CallInBody(h) == InBody /\ DoCallVoidN(h, <<NInt(7)>>, "survive")

NextNest ==
    \/ \E v \in NestVals : PushTableVal(v)
    \/ \E h \in Handles : CreateNestVar(h)
    \/ \E h \in Handles : BeginOuter(h)
    \/ AdvanceOuter
    \/ DestroyOuter
    \/ \E h \in Handles : BeginInner(h)
    \/ AdvanceInner
    \/ DestroyInner
    \/ \E h \in Handles : CountInBody(h)
    \/ \E h \in Handles : GetInBody(h)
    \/ \E h, r \in Handles : WrapBeforeLoop(h, r)
    \/ \E h \in Handles : CallInBody(h)

SpecNest == Init /\ [][NextNest]_vars

\* ----------------------------------------------------------- nested calls
DeepVals == {LTab(4), LFn(5)}

\* LuaVar h = LuaVar::CreateFromStack(pState);  before the loop: the table and
\* the script function
CreateDeepVar(h) ==
    /\ NoOpenIter /\ stack # <<>>
    /\ HandlesOf(stack[Len(stack)].t) = {}
    /\ CreateFromStack(h)

\* the application left a value on the stack before its loop or its call
PushDeepVal(v) == NoOpenIter /\ Len(stack) < MaxTableStack /\ last.op # "DeepCall" /\ PushValue(v)

\* h(n);  with h a LuaFunction<void> around function(n) ... end: the script
\* calls Again(n - 1), which calls h(n - 1), until Count() iterates the table
DeepCall(h, n) ==
    /\ Running
    /\ alive[h] /\ retType[h] = "void" /\ ~inner.alive
    /\ SlotRoom(World, 3)
    /\ \E r \in {CallVoidNScript(World, h, <<NInt(n)>>, "survive")} :
          /\ Commit(r.w)
          /\ DidCall("DeepCall",
                     [fn |-> IF IsFunction(World, h) THEN registry[m_reference[h]].v ELSE 0,
                      n |-> n, looping |-> iter.alive /\ ~iter.it.m_isAtEnd,
                      counted |-> HandlesOf("table") # {}], r)
    /\ UNCHANGED retType

NextDeep ==
    \/ \E v \in DeepVals : PushDeepVal(v)
    \/ \E h \in Handles : CreateDeepVar(h)
    \/ \E h, r \in Handles : WrapBeforeLoop(h, r)
    \/ \E h \in Handles : BeginOuter(h)
    \/ AdvanceOuter
    \/ DestroyOuter
    \/ \E h \in Handles, n \in 0 .. MaxDepth : DeepCall(h, n)

SpecDeep == Init /\ [][NextDeep]_vars

\* ------------------------------------------------------ moving iterators
MoveVals == {LTab(0), LTab(4)}
Its == {1, 2}

\* the two TableIterator objects of the application
It(i) == IF i = 1 THEN iter ELSE inner

\* the stack before the begin() calls of the iterators that are alive
Base == IF iter.alive THEN iter.base ELSE IF inner.alive THEN inner.base ELSE stack

\* a LuaVar that was moved from
MovedFromVar == [st |-> NullPtr, ref |-> LUA_REFNIL, prc |-> NullPtr]

\* TableIterator::Move(): m_keyValue is move-assigned member by member with
\* LuaVar::operator=(LuaVar&&), which releases what the target held
IterMove(w, self, right) ==
    [w |-> VarClearRef(VarClearRef(w, self.key), self.value),
     self |-> [m_pState |-> right.m_pState, key |-> right.key, value |-> right.value,
               m_isAtEnd |-> right.m_isAtEnd],
     right |-> [m_pState |-> NullPtr, key |-> MovedFromVar, value |-> MovedFromVar,
                m_isAtEnd |-> TRUE]]

\* TableIterator::Move() with right being *this: the LuaVars return at their
\* self test, then the two assignments to right hit the object itself
IterMoveSelf(w, self) ==
    [w |-> w, self |-> [self EXCEPT !.m_pState = NullPtr, !.m_isAtEnd = TRUE]]

\* what an operation on the iterators leaves in object i and in the other one
DidIts(op, case, i, a, b) ==
    DidIters(op, case, [ret |-> NoRet, diag |-> 0],
             IF i = 1 THEN a ELSE b, IF i = 1 THEN b ELSE a)

\* auto it_i = h.begin();  before any iterator moved on or ended
BeginIt(i, h) ==
    /\ Running /\ FirstLoop
    /\ alive[h] /\ IsTable(World, h) /\ ~It(i).alive
    /\ SlotRoom(World, 3)
    /\ \E b \in {InternalBegin(World, h)} :
          /\ Commit(b.w)
          /\ DidIts("BeginIt", [i |-> i, j |-> 0, atEnd |-> b.it.m_isAtEnd], i,
                    [Loop(World, h, b) EXCEPT !.base = Base], It(3 - i))

\* TableIterator it_i(std::move(it_j));
MoveConstructIt(i, j) ==
    /\ Running
    /\ i # j /\ ~It(i).alive /\ It(j).alive
    /\ \E m \in {IterMove(World, EndIter, It(j).it)} :
          /\ Commit(m.w)
          /\ DidIts("MoveConstructIt",
                    [i |-> i, j |-> j, atEnd |-> It(j).it.m_isAtEnd], i,
                    [It(j) EXCEPT !.it = m.self], [It(j) EXCEPT !.it = m.right])

\* it_i = std::move(it_j);
MoveAssignIt(i, j) ==
    /\ Running
    /\ It(i).alive /\ It(j).alive
    /\ IF i = j
       THEN \E m \in {IterMoveSelf(World, It(i).it)} :
               /\ Commit(m.w)
               /\ DidIts("MoveAssignIt",
                         [i |-> i, j |-> j, atEnd |-> It(i).it.m_isAtEnd], i,
                         [It(i) EXCEPT !.it = m.self], It(3 - i))
       ELSE \E m \in {IterMove(World, It(i).it, It(j).it)} :
               /\ Commit(m.w)
               /\ DidIts("MoveAssignIt",
                         [i |-> i, j |-> j, atEnd |-> It(i).it.m_isAtEnd], i,
                         [It(j) EXCEPT !.it = m.self, !.base = Base],
                         [It(j) EXCEPT !.it = m.right, !.base = Base])

\* it_i goes out of scope
DestroyIt(i) ==
    /\ Running
    /\ It(i).alive
    /\ \E w \in {IterDestroy(World, It(i).it)} : Commit(w)
    /\ DidIts("DestroyIt", [i |-> i, j |-> 0, atEnd |-> It(i).it.m_isAtEnd], i,
              NoIter, It(3 - i))

\* the script leaves a value on the stack, before the iterators
PushMoveVal(v) == ~inner.alive /\ PushTableVal(v)

\* LuaVar h = LuaVar::CreateFromStack(pState);  before the iterators
CreateMoveVar(h) == ~inner.alive /\ CreateTableVar(h)

NextMove ==
    \/ \E v \in MoveVals : PushMoveVal(v)
    \/ \E h \in Handles : CreateMoveVar(h)
    \/ \E i \in Its, h \in Handles : BeginIt(i, h)
    \/ AdvanceOuter
    \/ \E i, j \in Its : MoveConstructIt(i, j)
    \/ \E i, j \in Its : MoveAssignIt(i, j)
    \/ \E i \in Its : DestroyIt(i)

SpecMove == Init /\ [][NextMove]_vars

\* --------------------------------------------- new tables on any receiver
\* LuaVar::InsertNewTableAtEnd(): LuaVar table(m_pState);
\* table.CreateNewTable(); Insert(table); return table;
InsertNewTableAtEnd(w, x) ==
    IF x.st = NullPtr
    THEN [w |-> Abort(w), var |-> NilVar, diag |-> 0]
    ELSE Once(VarFromStack(lua_createtable(w)), LAMBDA t :
            Once(Insert(t.w, x, VarValue(t.w, t.var)), LAMBDA s :
                [w |-> s.w, var |-> t.var, diag |-> s.diag]))

\* { LuaVar r = h.InsertNewTableAtEnd(); }
DoInsertNewTableAtEnd(h) ==
    /\ Running
    /\ alive[h] /\ m_pState[h] # NullPtr
    /\ FieldRoom(World) /\ HeapRoom
    /\ ReceiverCase(World, h) = "table" =>
          Referent(World, h).v < 0 /\ RawLength(World, Referent(World, h)) < MaxArray
    /\ \E g \in {InsertNewTableAtEnd(World, HandleVar(World, h))} :
          /\ Commit(Drop(g.w, g.var))
          /\ DidField("InsertNewTableAtEnd",
                      [h |-> h, on |-> ReceiverCase(World, h), key |-> <<>>],
                      [ret |-> Seen(g.w, g.var), diag |-> g.diag])

NextNewTable ==
    \/ \E v \in FieldVals : PushFieldVal(v)
    \/ \E h \in Handles : NewFieldVar(h)
    \/ \E h \in Handles : CreateFieldVar(h)
    \/ \E h \in Handles : CreateFieldTable(h)
    \/ \E h \in Handles : DoSetNewTable(h, <<1>>)
    \/ \E h \in Handles : DoGetOrCreateNewTable(h, <<1>>)
    \/ \E h \in Handles : DoInsertNewTableAtEnd(h)
    \/ \E h \in Handles : Destroy(h)

SpecNewTable == Init /\ [][NextNewTable]_vars

\* scripts calling bound native functions
ParamLists == {<<"int">>, <<"int", "str">>, <<"var", "bool">>}
Signatures == [ret : RetTypes, params : ParamLists]
\* what the native function returns
NativeRets(R) ==
    CASE R = "void" -> {NoRet}
      [] R = "int"  -> {NInt(9)}
      [] R = "bool" -> {NBool(1)}
      [] R = "str"  -> {NStr(NullPtr), NStr(5)}
\* the objects member functions are bound with
BoundObjects == {2}
\* argument lists of the script calls
PlainArgs == {<<>>, <<LInt(3)>>, <<LInt(3), LBool(1)>>, <<LTable, LInt(4), LStr(5)>>}
MemberArgs == {<<>>, <<LInt(3)>>, <<LTab(5)>>, <<LTab(5), LInt(3)>>,
               <<LTab(5), LInt(3), LInt(4), LStr(5)>>, <<LTab(6), LInt(3)>>,
               <<LTab(7), LInt(3)>>, <<LTable, LInt(3)>>}

NextBind ==
    \/ \E sig \in Signatures, args \in PlainArgs :
          \E nativeRet \in NativeRets(sig.ret) : ScriptCallsFunction(sig, args, nativeRet)
    \/ \E sig \in Signatures, pObj \in BoundObjects, args \in PlainArgs :
          \E nativeRet \in NativeRets(sig.ret) : ScriptCallsObjPair(sig, pObj, args, nativeRet)
    \/ \E sig \in Signatures, args \in MemberArgs :
          \E nativeRet \in NativeRets(sig.ret) : ScriptCallsMember(sig, args, nativeRet)

SpecBind == Init /\ [][NextBind]_vars

\* ------------------------------------------- script objects with __object
MaxObjectVars == 2   \* handles alive at once while script objects are built
ObjectPtrs == {1, 2}
ObjectSigs == {sig \in Signatures : sig.ret = "int" /\ sig.params = <<"int">>}

\* LuaVar h;  while script objects are built
NewObjectVar(h) ==
    /\ Cardinality({g \in Handles : alive[g]}) < MaxObjectVars
    /\ DefaultConstruct(h)

\* h.SetTableValue("__object", o);
DoSetObject(h, o) ==
    /\ Running
    /\ alive[h] /\ alive[o] /\ h # o /\ m_pState[h] # NullPtr
    /\ ReceiverCase(World, h) = "table" /\ ReceiverCase(World, o) # "table"
    /\ FieldRoom(World)
    /\ \E s \in {SetTableValue(World, HandleVar(World, h), ObjectField, Referent(World, o))} :
          /\ Commit(s.w)
          /\ DidField("SetTableVar", [h |-> h, on |-> ReceiverCase(World, h), key |-> <<>>],
                      [ret |-> NoRet, diag |-> s.diag])

\* the script calls a method bound with a dynamically resolved instance on
\* the object behind h: obj:f(3)
ScriptCallsMethod(h, sig, nativeRet) ==
    /\ alive[h] /\ IsTable(World, h)
    /\ ScriptCallsMember(sig, <<Referent(World, h), LInt(3)>>, nativeRet)

NextObject ==
    \/ \E h \in Handles : NewObjectVar(h)
    \/ \E h \in Handles : CreateFieldTable(h)
    \/ \E h \in Handles, p \in ObjectPtrs : WrapNilVar(h, p)
    \/ \E h \in Handles : DoSetX(h, "Integer", "lua_Integer", 0)
    \/ \E h, o \in Handles : DoSetObject(h, o)
    \/ \E h \in Handles, sig \in ObjectSigs : ScriptCallsMethod(h, sig, NInt(9))
    \/ \E h \in Handles : Destroy(h)

SpecObject == Init /\ [][NextObject]_vars

\* comparing handles
CompareVals == {Nil, LInt(1), LInt(2)}

CompareRoom == Cardinality({h \in Handles : alive[h]}) < MaxCompareObjects

\* LuaVar h = LuaVar::CreateFromStack(pState);  while handles are compared
CreateOperand(h) == CompareRoom /\ CreateFromStack(h)

NextCompare ==
    \/ \E v \in CompareVals : PushValue(v)
    \/ \E h \in Handles : CreateOperand(h)
    \/ \E h \in Handles : Destroy(h)
    \/ \E a, b \in Handles, op \in CompareOps : DoCompare(a, b, op)

SpecCompare == Init /\ [][NextCompare]_vars

\* ------------------------------------------------------------ observations
Holders(s)  == {h \in Handles : alive[h] /\ m_reference[h] = s}
SlotLive(s) == registry[s].t \notin {"none", "free"}
LiveSlots   == {s \in Slots : SlotLive(s)}
HeldRefs    == {m_reference[h] : h \in {g \in Handles : alive[g] /\ m_reference[g] # LUA_REFNIL}}
CountOf(h)  == m_refCount[m_pRefCount[h]]

\* C1: under the lifecycle operations every registry slot a handle installed
\* is allocated exactly while some handle refers to it, its shared count is
\* the number of handles referring to it, all of them share one count block,
\* and no slot or block is ever released twice or used after its release.
C1_CountEqualsHolders ==
    /\ ~misuse
    /\ \A s \in Slots : SlotLive(s) <=> Holders(s) # {}
    /\ \A h \in Handles : (alive[h] /\ m_reference[h] # LUA_REFNIL) =>
          /\ m_pRefCount[h] \in allocated
          /\ CountOf(h) = Cardinality(Holders(m_reference[h]))
          /\ \A g \in Holders(m_reference[h]) : m_pRefCount[g] = m_pRefCount[h]
    /\ Cardinality(allocated) = Cardinality(LiveSlots)

\* two handles share one slot while another slot has just been released by
\* its last holder
C1_Witness ==
    /\ last.op \in {"ClearRef", "Destroy"} /\ last.case = "last"
    /\ freeHead # 0
    /\ \E s \in Slots : Cardinality(Holders(s)) = 2 /\ SlotLive(s)

\* the step just taken was made by operation op
Ran(op) == last'.op = op

\* h was copy-constructed from / copy-assigned r
Copied(h, r) ==
    \/ Ran("CopyConstruct") /\ CopyConstruct(h, r)
    \/ Ran("CopyAssign") /\ CopyAssign(h, r)

\* h was move-constructed from / move-assigned r
Moved(h, r) ==
    \/ Ran("MoveConstruct") /\ MoveConstruct(h, r)
    \/ Ran("MoveAssign") /\ MoveAssign(h, r)

\* h's reference was dropped by ClearRef or by the destructor
Dropped(h) ==
    \/ Ran("ClearRef") /\ DoClearRef(h)
    \/ Ran("Destroy") /\ Destroy(h)

\* number of registry slots / count blocks a step added
SlotGrowth  == Cardinality(LiveSlots') - Cardinality(LiveSlots)
BlockGrowth == Cardinality(allocated') - Cardinality(allocated)

\* C2: SetBool/SetInteger/SetNumber/SetString/SetLightUserData on a handle that
\* already holds a slot first release the old reference (its count drops by
\* one, or the slot and block are freed if the handle was the last holder) and
\* then install a new entry whose count is 1; SetNil releases the reference
\* and leaves the handle nil.
C2_SetReleasesOld ==
    [][\A h \in Handles :
        /\ \A nv \in SetArgs :
              (m_reference[h] # LUA_REFNIL /\ Ran("SetValue") /\ DoSetValue(h, nv)) =>
                 LET ob    == m_pRefCount[h]
                     wasLast == m_refCount[ob] = 1
                     made  == IF ToLua(nv) = Nil THEN 0 ELSE 1
                 IN /\ ~aborted'
                    /\ SlotGrowth = made - (IF wasLast THEN 1 ELSE 0)
                    /\ BlockGrowth = made - (IF wasLast THEN 1 ELSE 0)
                    /\ ~wasLast => m_refCount'[ob] = m_refCount[ob] - 1
                    /\ made = 1 => /\ m_reference'[h] # LUA_REFNIL
                                   /\ m_pRefCount'[h] \in allocated'
                                   /\ m_refCount'[m_pRefCount'[h]] = 1
        /\ (m_reference[h] # LUA_REFNIL /\ Ran("SetNil") /\ DoSetNil(h)) =>
              /\ m_reference'[h] = LUA_REFNIL
              /\ SlotGrowth = (IF m_refCount[m_pRefCount[h]] = 1 THEN -1 ELSE 0)
      ]_vars

\* C3: after every public operation on a handle, the handle's m_reference
\* differs from the nil sentinel exactly when its m_pRefCount is non-null.
C3_RefIffCount ==
    \A h \in Handles :
        alive[h] => ((m_reference[h] # LUA_REFNIL) <=> (m_pRefCount[h] # NullPtr))

\* C4: after h.ClearRef() the handle is nil; the number of occupied registry
\* slots drops by one exactly when h was the slot's last holder, so once every
\* handle created from the stack has been cleared no slot is occupied, however
\* many create/clear cycles ran before.
C4_ClearRefRestoresSlots ==
    [][\A h \in Handles : (Ran("ClearRef") /\ DoClearRef(h)) =>
          /\ ~aborted'
          /\ m_reference'[h] = LUA_REFNIL
          /\ SlotGrowth = (IF m_reference[h] # LUA_REFNIL
                              /\ Cardinality(Holders(m_reference[h])) = 1
                           THEN -1 ELSE 0)
          /\ BlockGrowth = SlotGrowth
          /\ (\A g \in Handles : m_reference'[g] = LUA_REFNIL) =>
                (LiveSlots' = {} /\ allocated' = {})
      ]_vars

\* two handles were created from non-nil stack values and both were cleared:
\* both slots are back on the registry's free list
C4_Witness ==
    /\ last.op = "ClearRef" /\ last.case = "last"
    /\ Cardinality({h \in Handles : alive[h] /\ m_reference[h] = LUA_REFNIL}) >= 2
    /\ LiveSlots = {}
    /\ Cardinality({s \in Slots : registry[s].t = "free"}) >= 2

\* a handle other than x refers to x's slot: x's release must leave it intact
SharedWith(x) ==
    {g \in Handles : g # x /\ alive[g] /\ m_reference[g] # LUA_REFNIL
                            /\ m_reference[g] = m_reference[x]}

\* C5 as written, for two different handles: after b = a (copy construction
\* or copy assignment) with a non-nil, the shared count is one higher than
\* before.
C5_CopyAlwaysAddsOne ==
    [][\A b, a \in Handles :
          (b # a /\ m_reference[a] # LUA_REFNIL /\ Copied(b, a)) =>
              m_refCount'[m_pRefCount[a]] = m_refCount[m_pRefCount[a]] + 1
      ]_vars

\* C5 amended: after b = a with a non-nil, b refers to a's slot and count
\* block, and the shared count is one higher than before unless b already
\* referred to that slot (b = a twice, or a = a), in which case it is
\* unchanged; when a holder of a shared slot is then cleared or destroyed
\* every other holder still refers to the same allocated slot with the same
\* value, the count one lower.
C5_CopyShares ==
    [][\A b, a \in Handles :
        /\ (m_reference[a] # LUA_REFNIL /\ Copied(b, a)) =>
              LET s == m_reference[a]
                  c == m_pRefCount[a]
              IN /\ m_reference'[b] = s /\ m_pRefCount'[b] = c
                 /\ m_reference'[a] = s /\ m_pRefCount'[a] = c
                 /\ registry'[s] = registry[s]
                 /\ c \in allocated'
                 /\ m_refCount'[c] = m_refCount[c]
                                      + (IF m_reference[b] = s THEN 0 ELSE 1)
        /\ (b \in SharedWith(a) /\ Dropped(a)) =>
              LET s == m_reference[b]
                  c == m_pRefCount[b]
              IN /\ alive'[b] /\ m_reference'[b] = s /\ m_pRefCount'[b] = c
                 /\ registry'[s] = registry[s]
                 /\ c \in allocated'
                 /\ m_refCount'[c] = m_refCount[c] - 1
      ]_vars

\* b = a ran while b already referred to a's slot, and the count is still the
\* number of holders
C5_Witness ==
    /\ last.op = "CopyAssign" /\ last.case = "same"
    /\ \E s \in Slots : /\ Cardinality(Holders(s)) = 2
                        /\ \A h \in Holders(s) : CountOf(h) = 2

\* C6 as written, for two different handles: after b = move(a) with a
\* non-nil, a is nil, b refers to a's slot and the count is the same as before.
C6_MoveKeepsCount ==
    [][\A b, a \in Handles :
          (b # a /\ m_reference[a] # LUA_REFNIL /\ Moved(b, a)) =>
              /\ m_reference'[a] = LUA_REFNIL
              /\ m_reference'[b] = m_reference[a]
              /\ m_refCount'[m_pRefCount[a]] = m_refCount[m_pRefCount[a]]
      ]_vars

\* C6 amended: after b = move(a) with a non-nil and b another handle, a is nil
\* and b refers to a's slot and count block; the count is the same as before
\* unless b already referred to that slot, in which case it is one lower; a
\* reference to another slot that b held before is released (count one lower,
\* or slot and block freed if b was its last holder).  a = move(a) changes
\* nothing.
C6_MoveTransfers ==
    [][\A b, a \in Handles :
        (m_reference[a] # LUA_REFNIL /\ Moved(b, a)) =>
           LET s  == m_reference[a]
               c  == m_pRefCount[a]
               os == m_reference[b]
               oc == m_pRefCount[b]
           IN IF b = a
              THEN UNCHANGED <<m_pState, m_reference, m_pRefCount, m_refCount,
                               allocated, registry, freeHead>>
              ELSE /\ m_reference'[a] = LUA_REFNIL /\ m_pRefCount'[a] = NullPtr
                   /\ m_reference'[b] = s /\ m_pRefCount'[b] = c
                   /\ registry'[s] = registry[s]
                   /\ c \in allocated'
                   /\ m_refCount'[c] = m_refCount[c] - (IF os = s THEN 1 ELSE 0)
                   /\ (os # LUA_REFNIL /\ os # s) =>
                         IF m_refCount[oc] = 1
                         THEN registry'[os].t = "free" /\ oc \notin allocated'
                         ELSE /\ m_refCount'[oc] = m_refCount[oc] - 1
                              /\ registry'[os] = registry[os]
      ]_vars

\* b = move(a) ran while b was the last holder of another slot: that slot is
\* free again, a is nil and b is the only holder of a's former slot
C6_Witness ==
    /\ last.op = "MoveAssign" /\ last.case = "replace"
    /\ freeHead # 0
    /\ \E a, b \in Handles :
          /\ a # b /\ alive[a] /\ alive[b]
          /\ m_reference[a] = LUA_REFNIL /\ m_pState[a] = NullPtr
          /\ m_reference[b] # LUA_REFNIL /\ CountOf(b) = 1

\* C7: CreateFromStack pops exactly one value whatever it is; a non-nil value
\* gets a registry slot that was not occupied and a new count block holding
\* 1; nil yields a nil handle and changes neither the registry nor the set of
\* count blocks.
C7_CreateFromStackPopsOne ==
    [][\A h \in Handles : (Ran("CreateFromStack") /\ CreateFromStack(h)) =>
          /\ ~aborted'
          /\ stack' = Pop(stack, 1)
          /\ alive'[h]
          /\ IF Top(stack) = Nil
             THEN /\ m_reference'[h] = LUA_REFNIL /\ m_pRefCount'[h] = NullPtr
                  /\ registry' = registry /\ allocated' = allocated
                  /\ m_refCount' = m_refCount
             ELSE /\ m_reference'[h] \in Slots
                  /\ ~SlotLive(m_reference'[h])
                  /\ registry'[m_reference'[h]] = Top(stack)
                  /\ SlotGrowth = 1 /\ BlockGrowth = 1
                  /\ m_pRefCount'[h] \in allocated' \ allocated
                  /\ m_refCount'[m_pRefCount'[h]] = 1
                  /\ \A g \in Handles \ {h} : m_reference'[g] # m_reference'[h]
      ]_vars

\* a handle was just created from a non-nil value that lay above another value
C7_Witness ==
    /\ last.op = "CreateFromStack" /\ last.case = "value"
    /\ Len(stack) = 1
    /\ \E h \in Handles : alive[h] /\ m_reference[h] # LUA_REFNIL /\ CountOf(h) = 1

\* the step just taken was the call h(args...) through the wrapper around h
CalledWith(h, args, ub) ==
    IF args = <<>>
    THEN \/ Ran("CallRet0") /\ DoCallRet0(h, ub)
         \/ Ran("CallVoid0") /\ DoCallVoid0(h, ub)
    ELSE \/ Ran("CallRetN") /\ DoCallRetN(h, args, ub)
         \/ Ran("CallVoidN") /\ DoCallVoidN(h, args, ub)

CallArgs == ArgLists \cup {<<>>}

\* the wrapper around h holds a function / some wrapper's call just returned
HoldsFunction(h) == IsFunction(World, h)

\* what the script function behind h does with args, and its first result
BodyOf(h, args) ==
    FnBody(registry[m_reference[h]].v, [i \in 1 .. Len(args) |-> ToLua(args[i])])
FirstResult(h, args) ==
    IF BodyOf(h, args).vals = <<>> THEN Nil ELSE BodyOf(h, args).vals[1]

\* C8: for every LuaFunction call shape (with or without arguments, void or
\* non-void) invoked on a function handle, when the call returns, after a
\* successful and after a failed protected call alike, the operand stack has
\* the depth (and the contents) it had before the call.
C8_CallKeepsDepth ==
    [][\A h \in Handles, args \in CallArgs, ub \in UBOutcomes :
          (HoldsFunction(h) /\ CalledWith(h, args, ub) /\ ~aborted') =>
              /\ Len(stack') = Len(stack)
              /\ stack' = stack
      ]_vars

\* a LuaFunction<void> was called without arguments on a function that raised
\* an error, with values on the stack, and the call returned
C8_Witness ==
    /\ last.op = "CallVoid0" /\ last.case = "error" /\ last.diag = 1
    /\ ~aborted
    /\ Len(stack) = MaxStack

\* C9, for a stack that holds at least one value: for every call shape,
\* invoking the wrapper when its handle is not a function returns the return
\* type's default value and leaves the operand stack as it was, whatever the
\* stack contains.
C9_InvalidReturnsDefault ==
    [][\A h \in Handles, args \in CallArgs, ub \in UBOutcomes :
          (stack # <<>> /\ ~HoldsFunction(h) /\ CalledWith(h, args, ub)) =>
              /\ ~aborted'
              /\ last'.ret = GetDefault(retType[h])
              /\ stack' = stack
      ]_vars

\* C10: a LuaFunction<R> call on a function handle returns the conversion to
\* R of the function's first result when the protected call succeeds, and R's
\* default with a diagnostic when it fails; the error of the script reaches
\* the native caller in no other way.
C10_CallReturns ==
    [][\A h \in Handles, args \in CallArgs, ub \in UBOutcomes :
          (HoldsFunction(h) /\ retType[h] # "void" /\ CalledWith(h, args, ub)) =>
              IF BodyOf(h, args).kind = "return"
              THEN /\ ~aborted'
                   /\ last'.ret = GetOf(retType[h], FirstResult(h, args)).ret
              ELSE /\ ~aborted'
                   /\ last'.ret = GetDefault(retType[h])
                   /\ last'.diag >= 1
      ]_vars

\* the pairs of the table the iterator was opened on, as a set
PairsOf(id) == {TableDef(id)[i] : i \in 1 .. Len(TableDef(id))}
SeenPairs == {iter.seen[i] : i \in 1 .. Len(iter.seen)}

\* C11: for a table with n pairs, begin() followed by repeated advance yields
\* every pair exactly once: the pairs yielded so far are distinct pairs of
\* the table, the iterator stands on the pair yielded last while the table and
\* the key lie on the stack above what was there before begin(), and it is
\* exhausted exactly when all n pairs were yielded, the stack then being what
\* it was before begin().
C11_IterationVisitsAll ==
    (iter.alive /\ ~aborted) =>
        LET n == Len(TableDef(iter.table))
        IN /\ SeenPairs \subseteq PairsOf(iter.table)
           /\ Cardinality(SeenPairs) = Len(iter.seen)
           /\ Cardinality({iter.seen[i][1] : i \in 1 .. Len(iter.seen)}) = Len(iter.seen)
           /\ IF iter.it.m_isAtEnd
              THEN /\ Len(iter.seen) = n
                   /\ SeenPairs = PairsOf(iter.table)
                   /\ Len(stack) = Len(iter.base)
                   /\ stack = iter.base
              ELSE /\ Len(iter.seen) \in 1 .. n
                   /\ CurrentPair(World, iter.it) = iter.seen[Len(iter.seen)]
                   /\ stack = iter.base \o <<LTab(iter.table), iter.seen[Len(iter.seen)][1]>>

\* the table {10, 20, a = true} was iterated to its end above a value that was
\* on the stack before begin()
C11_Witness ==
    /\ last.op = "Advance" /\ last.case = "end"
    /\ iter.alive /\ iter.it.m_isAtEnd /\ iter.table = 4
    /\ Len(iter.seen) = 3
    /\ Len(stack) = 1

\* C12: destroying a table iterator right after begin, after any number of
\* advances or after exhaustion leaves the stack as it was before begin():
\* exactly two slots are popped if and only if the iterator is not exhausted,
\* and the registry slots of its key and value are released.
C12_DestroyRestoresStack ==
    [][(Ran("DestroyIter") /\ DestroyIter) =>
          /\ ~aborted'
          /\ stack' = iter.base
          /\ Len(stack) - Len(stack') = (IF iter.it.m_isAtEnd THEN 0 ELSE 2)
          /\ SlotGrowth = (IF iter.it.m_isAtEnd THEN 0 ELSE -2)
          /\ ~misuse'
      ]_vars

\* an iterator over {10, 20, a = true} was destroyed after one advance, above
\* a value that was on the stack before begin()
C12_Witness ==
    /\ last.op = "DestroyIter" /\ last.case = "pair"
    /\ ~iter.alive
    /\ Len(stack) = 1
    /\ Cardinality({s \in Slots : registry[s].t = "free"}) >= 3

\* C13: begin() on a nil handle, on a handle whose value is not a table and on
\* an empty table yields an iterator that is already exhausted and leaves the
\* stack unchanged.
C13_BeginOnNonTable ==
    [][\A h \in Handles :
          (TableCase(World, h) # "pairs" /\ Ran("Begin") /\ Begin(h)) =>
              /\ ~aborted'
              /\ iter'.it.m_isAtEnd
              /\ ~IterNotEqual(iter'.it, EndIter)
              /\ stack' = stack
              /\ registry' = registry
      ]_vars

\* begin() ran on a handle holding a number, with a value on the stack
C13_Witness ==
    /\ last.op = "Begin" /\ last.case = "nontable" /\ last.diag = 1
    /\ iter.alive /\ iter.it.m_isAtEnd
    /\ Len(stack) = 1

\* C14: GetNumElements() returns the number of pairs of a table, array part
\* and hash part together, returns 0 for a nil or non-table handle, and leaves
\* the stack unchanged in both cases.
C14_GetNumElementsCounts ==
    [][\A h \in Handles : (Ran("GetNumElements") /\ DoGetNumElements(h)) =>
          /\ ~aborted'
          /\ stack' = stack
          /\ last'.ret = (IF IsTable(World, h)
                          THEN NInt(Len(TableDef(registry[m_reference[h]].v)))
                          ELSE NInt(0))
          /\ SlotGrowth = 0 /\ ~misuse'
      ]_vars

\* GetNumElements() returned 3 for {10, 20, a = true}, with a value on the stack
C14_Witness ==
    /\ last.op = "GetNumElements" /\ last.case = "pairs" /\ last.ret = NInt(3)
    /\ Len(stack) = 1

\* what the runtime answers for "x op y" on two values
RuntimeCompare(x, y, op) ==
    CASE op = "==" -> x = y
      [] op = "!=" -> x # y
      [] op = "<"  -> x.v < y.v
      [] op = "<=" -> x.v <= y.v
      [] op = ">"  -> y.v < x.v
      [] op = ">=" -> y.v <= x.v

\* the value handle h refers to
ValueOf(h) == IF IsValid(World, h) THEN registry[m_reference[h]] ELSE Nil

\* C19: for handles a and b holding values the runtime can order, each of
\* a < b, a <= b, a > b, a >= b, a == b and a != b returns what the runtime
\* returns for the same operator with a's value as the left operand and b's
\* value as the right operand.
C19_CompareLeftRight ==
    [][\A a, b \in Handles, op \in CompareOps :
          (Orderable(ValueOf(a), ValueOf(b)) /\ Ran("Compare") /\ DoCompare(a, b, op)) =>
              /\ ~aborted'
              /\ last'.ret = NBool(IF RuntimeCompare(ValueOf(a), ValueOf(b), op)
                                   THEN 1 ELSE 0)
      ]_vars

\* the segments of a path: the runs of letters between its dots
RECURSIVE Segments(_)
Segments(path) ==
    IF path = <<>> THEN << <<>> >>
    ELSE LET rest == Segments(Tail(path))
         IN IF Head(path) = Dot THEN << <<>> >> \o rest
            ELSE << <<Head(path)>> \o rest[1] >> \o Tail(rest)

\* reading field name of the value x in the script: x.name
Field(x, name) ==
    IF KeyIndex(x.v, Key(name)) = 0 THEN Nil
    ELSE TableDef(x.v)[KeyIndex(x.v, Key(name))][2]

\* the value reached from x through the fields segs[1], segs[2], ...; Unused
\* stands for "a field before the last one is missing or is not a table"
RECURSIVE Reach(_, _)
Reach(x, segs) ==
    IF segs = <<>> THEN x
    ELSE IF x.t # "table" THEN Unused
    ELSE Reach(Field(x, Head(segs)), Tail(segs))

\* C20: on a table handle, Lookup("s1.s2. ... .sn") with non-empty segments
\* returns a handle to the value reached by reading field s1 of the receiver,
\* then field s2 of that result, and so on; it returns a nil handle with a
\* diagnostic when the receiver is not a table, when the path is empty, or
\* when one of s1..s(n-1) is missing or is not a table.  The stack is left as
\* it was and the receiver keeps its slot and count.
C20_LookupWalksPath ==
    [][\A h, r \in Handles, path \in Paths :
          (Ran("Lookup") /\ last'.ret = LookedUp(path) /\ DoLookup(h, r, path)
              /\ \A i \in 1 .. Len(Segments(path)) : path = <<>> \/ Segments(path)[i] # <<>>) =>
              LET got == IF m_reference'[r] = LUA_REFNIL THEN Nil
                         ELSE registry'[m_reference'[r]]
                  want == Reach(ValueOf(h), Segments(path))
              IN /\ ~aborted' /\ ~misuse'
                 /\ alive'[r]
                 /\ stack' = stack
                 /\ m_reference'[h] = m_reference[h]
                 /\ m_pRefCount[h] # NullPtr =>
                       m_refCount'[m_pRefCount[h]] = m_refCount[m_pRefCount[h]]
                 /\ SlotGrowth = (IF got = Nil THEN 0 ELSE 1)
                 /\ IF ~IsTable(World, h) \/ path = <<>> \/ want = Unused
                    THEN got = Nil /\ last'.diag >= 1
                    ELSE got = want /\ last'.diag = 0
      ]_vars

\* Lookup("a.b.c") on {a = {b = {c = 42}}, x = 7} returned a handle to 42, with
\* a value on the stack
C20_Witness ==
    /\ last.op = "Lookup" /\ last.case = "pairs" /\ last.diag = 0
    /\ Len(stack) = 1
    /\ \E h, r \in Handles :
          /\ h # r /\ alive[h] /\ alive[r]
          /\ ValueOf(h) = LTab(1)
          /\ ValueOf(r) = LInt(42)

\* ------------------------------------------------- bound native functions
BoundOps == {"CallBoundFunction", "CallBoundMemberFunctionObjPair",
             "CallBoundMemberFunction"}
Dynamic == last.op = "CallBoundMemberFunction"

\* what the marshalling layer makes of script value v for a parameter of
\* type T, and the default of type T
Converted(T, v) ==
    CASE T = "int"  -> IF v.t = "int" THEN NInt(v.v) ELSE NInt(0)
      [] T = "bool" -> IF v = Nil \/ v = LBool(0) THEN NBool(0) ELSE NBool(1)
      [] T = "str"  -> IF v.t = "str" THEN NStr(v.v)
                       ELSE IF v.t = "int" THEN NStr(NumText(v.v)) ELSE NStr(NullPtr)
      [] T = "var"  -> NVar(v)
DefaultOf(T) ==
    CASE T = "int"  -> NInt(0)
      [] T = "bool" -> NBool(0)
      [] T = "str"  -> NStr(NullPtr)
      [] T = "var"  -> NVar(Nil)

\* the __object field of script value v, nil if v has none
ObjectOf(v) ==
    IF v.t # "table" \/ KeyIndex(v.v, ObjectField) = 0 THEN Nil
    ELSE TableDef(v.v)[KeyIndex(v.v, ObjectField)][2]

\* the call is obj:f(x1, ..., xm) with obj.__object an opaque block
Resolves(args) == args # <<>> /\ ObjectOf(args[1]).t = "ud"

\* two native values are the same: the same type and the same value
SameNative(a, b) == a.k = b.k /\ a.v = b.v

\* parameter i of the one native invocation got argument i of xs, or the
\* default of its type when xs has no argument i
ParamsFrom(xs) ==
    /\ Len(last.ret.calls) = 1
    /\ Len(last.ret.calls[1].params) = Len(last.case.sig.params)
    /\ \A i \in 1 .. Len(last.case.sig.params) :
          SameNative(last.ret.calls[1].params[i],
                     IF i <= Len(xs) THEN Converted(last.case.sig.params[i], xs[i])
                     ELSE DefaultOf(last.case.sig.params[i]))

\* C15: a bound native function with k parameters called with m arguments is
\* invoked exactly once, parameter i receiving the conversion of argument i
\* for i <= m and its type's default for i > m, arguments after the k-th
\* ignored; the same for both member shapes, the instance pointer not
\* shifting the parameters (dynamic shape: once the instance is resolved)
C15_ArgumentsByPosition ==
    /\ last.op \in BoundOps \ {"CallBoundMemberFunction"} => ParamsFrom(last.case.args)
    /\ last.op = "CallBoundMemberFunctionObjPair" =>
          last.ret.calls[1].obj = last.case.obj
    /\ Dynamic /\ Resolves(last.case.args) =>
          /\ ParamsFrom(Tail(last.case.args))
          /\ last.ret.calls[1].obj = ObjectOf(last.case.args[1]).v

\* a member function with two parameters called with one argument: the
\* first parameter is that argument, the second its default
C15_Witness ==
    /\ last.op = "CallBoundMemberFunctionObjPair"
    /\ last.case.sig.params = <<"int", "str">>
    /\ last.case.args = <<LInt(3)>>
    /\ last.ret.calls[1].params = <<NInt(3), NStr(NullPtr)>>

\* the native function ran
Invoked == last.ret.calls # <<>>
NonVoid == last.case.sig.ret # "void"

\* C16 as amended: every trampoline call that reaches the native function
\* reports 1 result when the return type is non-void and 0 when it is void,
\* the native function sees a frame of depth 0, and the frame at return
\* holds exactly the pushed return value (nothing for void); a call the
\* dynamic trampoline rejects reports 0 results whatever the return type
C16_ResultsWhenInvoked ==
    last.op \in BoundOps =>
        IF Invoked
        THEN /\ last.ret.n = IF NonVoid THEN 1 ELSE 0
             /\ last.ret.calls[1].depth = 0
             /\ last.ret.frame = IF NonVoid THEN <<ToLua(last.case.nativeRet)>> ELSE <<>>
        ELSE Dynamic /\ last.ret.n = 0

\* a non-void function called with more arguments than it has parameters
C16_Witness ==
    /\ last.op = "CallBoundFunction"
    /\ last.case.sig = [ret |-> "int", params |-> <<"int">>]
    /\ last.case.args = <<LTable, LInt(4), LStr(5)>>
    /\ last.ret.n = 1
    /\ last.ret.frame = <<LInt(9)>>

\* C16 as written: every trampoline reports exactly 1 result when the return
\* type is non-void and exactly 0 when it is void
C16_AsWritten ==
    last.op \in BoundOps => last.ret.n = IF NonVoid THEN 1 ELSE 0

\* C17: the dynamic trampoline reports zero results and does not invoke the
\* member function when the first argument is missing or not a table, or its
\* __object is absent or anything but a full userdata, a light pointer
\* included
C17_RejectsUnresolved ==
    Dynamic /\ ~Resolves(last.case.args) => last.ret.n = 0 /\ ~Invoked

\* C18: on a successful obj:f(x1, ..., xm) the receiver is removed before
\* the arguments are extracted: parameter i receives xi, never the receiver
\* and never x(i-1), and the parameters after the m-th are defaulted
C18_ReceiverExcised ==
    Dynamic /\ Resolves(last.case.args) =>
        LET xs == Tail(last.case.args)
            ps == last.ret.calls[1].params
        IN /\ Invoked
           /\ \A i \in 1 .. Len(ps) :
                 /\ i <= Len(xs) => ps[i] = Converted(last.case.sig.params[i], xs[i])
                 /\ i > Len(xs) => ps[i] = DefaultOf(last.case.sig.params[i])
                 /\ last.case.sig.params[i] = "var" => ps[i] # NVar(last.case.args[1])

\* obj:f(3) on a function (int, const char*): it receives 3 and a null string
C18_Witness ==
    /\ Dynamic
    /\ last.case.args = <<LTab(5), LInt(3)>>
    /\ last.case.sig.params = <<"int", "str">>
    /\ last.ret.calls[1].params = <<NInt(3), NStr(NullPtr)>>

\* ---------------------------------------------------------- dotted paths
\* a sequence of segments without its empty segments
RECURSIVE NonEmpty(_)
NonEmpty(segs) ==
    IF segs = <<>> THEN <<>>
    ELSE IF Head(segs) = <<>> THEN NonEmpty(Tail(segs))
    ELSE <<Head(segs)>> \o NonEmpty(Tail(segs))

HasEmptySegment(path) == \E i \in 1 .. Len(Segments(path)) : Segments(path)[i] = <<>>

\* the value the handle r refers to after the step
Got(r) == IF m_reference'[r] = LUA_REFNIL THEN Nil ELSE registry'[m_reference'[r]]

\* C21: on a table, Lookup on a path with empty segments (leading '.',
\* trailing '.', '..') returns what Lookup returns on the path without them;
\* a path with no non-empty segment ("", ".", "..") returns a nil handle with
\* a diagnostic
C21_EmptySegmentsDropped ==
    [][\A h, r \in Handles, path \in DottedPaths :
          (Ran("Lookup") /\ last'.ret = LookedUp(path) /\ DoLookup(h, r, path)
              /\ IsTable(World, h) /\ HasEmptySegment(path)) =>
              LET want == Reach(ValueOf(h), NonEmpty(Segments(path)))
              IN /\ ~aborted'
                 /\ IF NonEmpty(Segments(path)) = <<>> \/ want = Unused
                    THEN Got(r) = Nil /\ last'.diag >= 1
                    ELSE Got(r) = want /\ last'.diag = 0
      ]_vars

\* C30: whenever a table iterator is in HasPair (after a begin() or an
\* advance that found a pair), the stack is exactly two deeper than before
\* begin(), its top two slots are the iterated table and the current key, and
\* the iterator's key and value handles refer to that key and to the value
\* stored under it.
C30_HasPairStack ==
    (iter.alive /\ ~aborted /\ ~iter.it.m_isAtEnd) =>
        LET key == VarValue(World, iter.it.key)
            i   == KeyIndex(iter.table, key)
        IN /\ Len(stack) = Len(iter.base) + 2
           /\ stack = iter.base \o <<LTab(iter.table), key>>
           /\ iter.it.key.ref # LUA_REFNIL
           /\ i # 0
           /\ VarValue(World, iter.it.value) = TableDef(iter.table)[i][2]

\* after begin() and one advance on {10, 20, a = true}, with a value on the
\* stack below: the iterator stands on [2] = 20
C30_Witness ==
    /\ iter.alive /\ ~iter.it.m_isAtEnd
    /\ last.op = "Advance"
    /\ iter.table = 4
    /\ Len(iter.base) = 1 /\ Len(stack) = 3
    /\ Top(stack) = LInt(2)
    /\ VarValue(World, iter.it.value) = LInt(20)

\* ------------------------------------------------------------------- C22
\* what the table id holds at key k, nil when it has no such pair
Stored(h0, id, k) ==
    LET def == IF id < 0 THEN h0[-id].pairs ELSE TableDef(id)
        at  == {i \in 1 .. Len(def) : def[i][1] = k}
    IN IF at = {} THEN Nil ELSE def[CHOOSE i \in at : TRUE][2]

\* the table the handle h refers to
TableOf(h) == registry[m_reference[h]].v

\* C22: on a table receiver GetOrCreateNewTable(key) returns a handle to the
\* table already stored at key and replaces nothing; when key is absent it
\* makes a new empty table, stores it at key and returns a handle to that very
\* table; when key holds a value that is not a table it returns a nil handle
\* and leaves the value at key as it is.
C22_GetOrCreate ==
    [][(Ran("GetOrCreateNewTable") /\ last'.case.on = "table" /\ ~aborted')
         => LET t   == TableOf(last'.case.h)
                k   == Key(last'.case.key)
                old == Stored(heap, t, k)
                new == LTab(-(Len(heap) + 1))
            IN CASE old.t = "table" ->
                      /\ ~last'.ret.isNil /\ last'.ret.v = old
                      /\ heap' = heap
                 [] old = Nil ->
                      /\ Len(heap') = Len(heap) + 1
                      /\ heap'[Len(heap')] = NewTable
                      /\ Stored(heap', t, k) = new
                      /\ ~last'.ret.isNil /\ last'.ret.v = new
                      /\ \A i \in 1 .. Len(heap) : \A k2 \in {Key(n) : n \in FieldNames} \ {k} :
                            Stored(heap', -i, k2) = Stored(heap, -i, k2)
                 [] OTHER ->
                      /\ last'.ret.isNil /\ last'.ret.v = Nil
                      /\ heap' = heap]_vars

\* the second GetOrCreateNewTable of a key returned the table the first made
C22_Witness ==
    /\ last.op = "GetOrCreateNewTable" /\ ~aborted
    /\ last.case.on = "table" /\ last.case.had = "table"
    /\ last.ret.v.t = "table"

\* ------------------------------------------------------------------- C23
\* the keys a table of the field specification can have
FieldKeys == {Key(n) : n \in FieldNames} \cup {LInt(i) : i \in 1 .. MaxArray}

\* C23: on a table handle t, after t.SetTableInteger(k, v) a call of
\* t.GetTableInteger(k) returns v, whatever k held before, and the values
\* under the other keys are what they were; after t.SetTableNil(k) the handle
\* t.GetTableVar(k) returns is nil.
C23_FieldRoundTrip ==
    [][(last'.op \in {"SetTableInteger", "SetTableNil"} /\ last'.case.on = "table"
          /\ ~aborted')
         => LET h == last'.case.h
                t == TableOf(h)
                k == last'.case.key
            IN /\ last'.diag = 0 /\ stack' = stack
               /\ \A k2 \in FieldKeys \ {Key(k)} : Stored(heap', t, k2) = Stored(heap, t, k2)
               /\ Ran("SetTableInteger") =>
                     \E g \in {GetTableValue(World', HandleVar(World', h), Key(k), "int")} :
                        /\ g.diag = 0
                        /\ static_cast(last'.case.T, g.ret.v) = last'.case.val
               /\ Ran("SetTableNil") =>
                     \E g \in {GetTableVar(World', HandleVar(World', h), k)} :
                        g.var.ref = LUA_REFNIL /\ g.diag = 0]_vars

\* the largest unsigned integer was written over another value of the field
\* while the other field held a value
C23_Witness ==
    /\ last.op = "SetTableInteger" /\ ~aborted
    /\ last.case.on = "table" /\ last.case.T = "lua_Unsigned"
    /\ last.case.val = 2^IntBits - 1
    /\ \A k \in FieldNames : Stored(heap, TableOf(last.case.h), Key(k)) # Nil

\* ------------------------------------------------------------------- C27
\* the step was one of the table operations on a handle that is nil or refers
\* to a value that is not a table
OnNonTable ==
    IF Ran("GetNumElements") THEN last'.case \in {"nil", "nontable"}
    ELSE /\ last'.op \in {"GetTableInteger", "GetTableVar", "SetTableInteger", "SetTableNil",
                          "Insert", "Lookup"}
         /\ last'.case.on \in {"nil", "nontable"}

\* C27: GetTableX, SetTableX, Insert, Lookup and GetNumElements on a handle
\* that is nil or whose value is not a table change no table and not the
\* stack, and return the default of the requested type: 0 for an integer and
\* a count, a nil handle for a LuaVar.
C27_NonTableNoOp ==
    [][OnNonTable
         => /\ ~aborted'
            /\ heap' = heap /\ stack' = stack
            /\ last'.op \in {"GetTableInteger", "GetNumElements"} => last'.ret = NInt(0)
            /\ last'.op \in {"GetTableVar", "Lookup"} =>
                  last'.ret.isNil /\ last'.ret.v = Nil]_vars

\* Insert ran on a handle that refers to a number while a table had fields
\* and the stack held a value
C27_Witness ==
    /\ last.op = "Insert" /\ last.case.on = "nontable" /\ ~aborted
    /\ \E i \in 2 .. Len(heap) : heap[i].pairs # <<>>
    /\ stack # <<>>

\* ------------------------------------------------------------------- C26
\* registry slots that hold a value, and the handles that refer to slot s
InUse(reg) == {s \in Slots : reg[s].t \notin {"none", "free"}}
Sharers(ref, al, s) == {g \in Handles : al[g] /\ ref[g] = s}

\* C26: CreateNewTable and WrapObjectPtr on a handle that holds a registry
\* slot release that reference first: the shared count goes down by one, and
\* as its last holder the handle gives slot and count block back.  After it
\* the handle owns a slot of its own with the new table or userdata and a
\* count of 1, and every other handle is what it was and reads the value it
\* read before.
C26_ReleasesFirst ==
    [][(last'.op \in {"CreateNewTable", "WrapObjectPtr"} /\ last'.case.on # "nil"
          /\ ~aborted')
         => LET h   == last'.case.h
                old == m_reference[h]
                b   == m_pRefCount[h]
                new == m_reference'[h]
            IN /\ ~misuse'
               /\ new # LUA_REFNIL /\ new \in InUse(registry')
               /\ registry'[new].t = (IF Ran("CreateNewTable") THEN "table" ELSE "ud")
               /\ Ran("CreateNewTable") => heap'[-registry'[new].v] = NewTable
               /\ Sharers(m_reference', alive', new) = {h}
               /\ m_pRefCount'[h] \in allocated' /\ m_refCount'[m_pRefCount'[h]] = 1
               /\ \A g \in Sharers(m_reference, alive, old) \ {h} :
                     /\ m_reference'[g] = old /\ m_pRefCount'[g] = b /\ b \in allocated'
                     /\ registry'[old] = registry[old]
               /\ \A g \in Handles \ {h} :
                     /\ alive'[g] = alive[g] /\ m_reference'[g] = m_reference[g]
                     /\ m_pRefCount'[g] = m_pRefCount[g] /\ m_pState'[g] = m_pState[g]
               /\ IF last'.case.on = "last"
                  THEN /\ Cardinality(InUse(registry')) = Cardinality(InUse(registry))
                       /\ Cardinality(allocated') = Cardinality(allocated)
                       /\ m_pRefCount'[h] # b => b \notin allocated'
                       /\ new # old => old \notin InUse(registry')
                  ELSE /\ m_refCount'[b] = m_refCount[b] - 1
                       /\ new # old /\ m_pRefCount'[h] # b
                       /\ InUse(registry') = InUse(registry) \cup {new}]_vars

\* a handle that shared its slot with another one was given a new table
C26_Witness ==
    /\ last.op = "CreateNewTable" /\ last.case.on = "shared" /\ ~aborted
    /\ \E g \in Handles \ {last.case.h} :
          alive[g] /\ m_reference[g] # LUA_REFNIL /\ registry[m_reference[g]] = LInt(7)

\* ------------------------------------------------------------------- C24
\* C24: after SetBool, SetInteger, SetString or SetLightUserData with the
\* value v on a nil handle, the matching GetX returns v and the matching IsX
\* is true; v ranges over false and true, 0, -1, the largest and the smallest
\* lua_Integer and the largest lua_Unsigned, the empty and a one-letter text,
\* the null and a non-null pointer.
C24_ValueRoundTrip ==
    [][(Ran("SetX") /\ ~aborted')
         => LET c == last'.case
                x == HandleVar(World', c.h)
            IN /\ \E g \in {GetX(World', x, c.X, c.T)} :
                     ~g.w.aborted /\ g.ret = c.val /\ g.diag = 0
               /\ \E r \in {IsX(World', x, c.X)} : ~r.w.aborted /\ r.ret
               /\ stack' = stack]_vars

\* the largest unsigned integer was set on a nil handle
C24_Witness ==
    /\ last.op = "SetX" /\ ~aborted
    /\ last.case.X = "Integer" /\ last.case.T = "lua_Unsigned"
    /\ last.case.val = 2^IntBits - 1
    /\ registry[m_reference[last.case.h]] = LInt(-1)

\* ------------------------------------------------------------------- C25
\* C25: on a handle without a value (default-constructed, cleared, moved
\* from, or made from a nil on the stack) IsNil() is true, the nine type
\* predicates are false, and none of them changes the stack.
C25_NilIsNoType ==
    [][(last'.op \in {"IsX", "IsNil"} /\ last'.case.on \in {"nil", "moved"})
         => /\ ~aborted'
            /\ last'.ret = Ran("IsNil")
            /\ stack' = stack]_vars

\* ------------------------------------------------------------------- C28
\* C28: DoString and DoFile given source that does not compile or that
\* raises an error (or, for DoFile, a file that cannot be opened) return
\* false and leave the operand stack as it was, the context still usable
C28_FailedRunLeavesNoTrace ==
    [][(last'.op \in {"DoString", "DoFile"} /\ last'.case \in FailingKinds)
         => /\ ~aborted'
            /\ last'.ret = NBool(0)
            /\ stack' = stack]_vars

\* the same with an error value that is a string, a compile error or a
\* file that cannot be opened: these fail as described
C28_TextErrors ==
    [][(last'.op \in {"DoString", "DoFile"} /\ last'.case \in FailingKinds \ {"raise_obj"})
         => /\ ~aborted'
            /\ last'.ret = NBool(0)
            /\ last'.diag = 1
            /\ stack' = stack]_vars

\* ------------------------------------------------------------------- C29
StackNeutralOps ==
    {"SetX", "GetX", "IsX", "GetTypeName", "GetTableInteger", "GetTableVar",
     "SetTableInteger", "SetNewTable", "GetOrCreateNewTable", "Insert", "GetVarAt",
     "CreateNewTable", "WrapObjectPtr", "Lookup", "GetLength", "GetNumElements",
     "Compare", "SetMetaTable", "GetMetaTable", "BindFunction", "GetGlobal",
     "SetGlobal"}

\* C29: every handle operation other than CreateFromStack and the iterator,
\* and GetGlobal / SetGlobal, called on a receiver that meets its
\* precondition, returns with the operand stack as it was when called
C29_StackNeutral ==
    [][(last'.op \in StackNeutralOps /\ ~aborted') => stack' = stack]_vars

\* a new table was stored in a field of a table while the application had
\* a value of its own on the stack
C29_Witness ==
    /\ last.op = "SetNewTable" /\ last.case.on = "table" /\ last.diag = 0
    /\ ~last.ret.isNil
    /\ stack # <<>>
    /\ ~aborted

\* ------------------------------------------------------------------- C31
\* the pairs the outer loop yielded so far
OuterSeen == {iter.seen[i] : i \in 1 .. Len(iter.seen)}

\* C31: when the code between two advances of an iterator is stack-balanced
\* (handle reads, GetNumElements, an inner loop over another or the same
\* table that was left), every outer advance finds the outer table and the
\* current key in the top two stack slots, the outer loop visits every pair
\* exactly once, and it ends with the stack it started with
C31_NestedLoops ==
    (iter.alive /\ ~inner.alive /\ ~aborted) =>
        /\ OuterSeen \subseteq PairsOf(iter.table)
        /\ Cardinality(OuterSeen) = Len(iter.seen)
        /\ IF iter.it.m_isAtEnd
           THEN OuterSeen = PairsOf(iter.table) /\ stack = iter.base
           ELSE /\ Len(stack) = Len(iter.base) + 2
                /\ SubSeq(stack, Len(stack) - 1, Len(stack))
                      = <<LTab(iter.table), VarValue(World, iter.it.key)>>
                /\ CurrentPair(World, iter.it) = iter.seen[Len(iter.seen)]

\* an inner loop was left by a break while the outer loop over
\* {10, 20, a = true} stood on its last pair, above a value of the application
C31_Witness ==
    /\ last.op = "DestroyInner" /\ last.case = "pair"
    /\ iter.alive /\ ~iter.it.m_isAtEnd /\ iter.table = 4 /\ Len(iter.seen) = 3
    /\ ~inner.alive /\ ~aborted
    /\ Len(iter.base) = 1

\* ------------------------------------------------------------------- C40
\* C40: after any sequence of move-constructions and move-assignments of
\* table iterators, when the last of them is destroyed the stack is the
\* stack before their begin() calls: the table and key slots of each
\* iteration that was not exhausted were popped exactly once
C40_MovedIteratorsPopOnce ==
    [][(last'.op = "DestroyIt" /\ ~iter'.alive /\ ~inner'.alive /\ ~aborted')
         => stack' = Base]_vars

\* stack slots above Base that no live iterator will pop
Leak ==
    Len(stack) - Len(Base) - 2 * Cardinality({i \in Its : It(i).alive /\ ~It(i).it.m_isAtEnd})

\* begin(), ++, move-construction and move-assignment to another iterator
\* that is exhausted or moved-from hand the slots over, and when nothing
\* leaked the last destructor leaves the stack of before the begin() calls
C40_MoveConstructed ==
    [][/\ (last'.op \in {"BeginIt", "Advance", "MoveConstructIt"} /\ ~aborted')
          => Leak' = Leak
       /\ (last'.op = "MoveAssignIt" /\ last'.case.i # last'.case.j /\ last'.case.atEnd)
          => Leak' = Leak
       /\ (last'.op = "DestroyIt" /\ Leak = 0 /\ ~aborted')
          => IF ~iter'.alive /\ ~inner'.alive THEN stack' = Base ELSE Leak' = 0]_vars

\* ------------------------------------------------------------------- C33
\* the handle that the last LoadString returned
Loaded == CHOOSE h \in Handles : alive'[h] /\ ~alive[h]

\* C33: LoadString leaves the depth of the operand stack unchanged on both
\* outcomes: text that compiles gives a handle of a function, text that
\* does not compile gives a nil handle and leaves no error value on the stack
C33_LoadStringBalanced ==
    [][(last'.op = "LoadString" /\ ~aborted')
         => /\ Len(stack') = Len(stack)
            /\ IF last'.case = "syntax"
               THEN m_reference'[Loaded] = LUA_REFNIL
               ELSE /\ m_reference'[Loaded] # LUA_REFNIL
                    /\ registry'[m_reference'[Loaded]].t = "fn"]_vars

\* text that compiles: the chunk is consumed into the registry
C33_Compiled ==
    [][(last'.op = "LoadString" /\ last'.case # "syntax" /\ ~aborted')
         => /\ stack' = stack
            /\ m_reference'[Loaded] # LUA_REFNIL
            /\ registry'[m_reference'[Loaded]] = ChunkFn(last'.case)]_vars

\* text that does not compile: a nil handle, one diagnostic, and the
\* compiler's message on top of the stack
C33_FailedLoadLeavesMessage ==
    [][(last'.op = "LoadString" /\ last'.case = "syntax" /\ ~aborted')
         => /\ stack' = Append(stack, LStr(2))
            /\ m_reference'[Loaded] = LUA_REFNIL
            /\ last'.diag = 1]_vars

\* ------------------------------------------------------------------- C34
\* C34: DoString leaves the depth of the operand stack unchanged when it
\* returns true, also when the chunk it ran returns values
C34_DoStringBalanced ==
    [][(last'.op = "DoString" /\ last'.ret = NBool(1))
         => Len(stack') = Len(stack)]_vars

\* a chunk that returns nothing leaves the stack as it was; the values a
\* chunk returns stay on the stack
C34_ResultsStay ==
    [][(last'.op = "DoString" /\ last'.ret = NBool(1))
         => stack' = stack \o FnBody(ChunkFn(last'.case).v, <<>>).vals]_vars

\* ------------------------------------------------------------------- C35
NewTableOps == {"SetNewTable", "GetOrCreateNewTable", "InsertNewTableAtEnd"}

\* C35: SetNewTable, GetOrCreateNewTable and InsertNewTableAtEnd on a
\* receiver that is nil or holds something that is not a table write a
\* diagnostic and return a nil handle, not a table attached to nothing
C35_NoOrphanTable ==
    [][(last'.op \in NewTableOps /\ last'.case.on # "table" /\ ~aborted')
         => /\ last'.ret.isNil
            /\ last'.diag >= 1]_vars

\* on such a receiver the three write a diagnostic, change nothing the
\* application holds, and return a handle of a new empty table
C35_ReturnsNewTable ==
    [][(last'.op \in NewTableOps /\ last'.case.on # "table" /\ ~aborted')
         => /\ last'.diag >= 1
            /\ ~last'.ret.isNil
            /\ last'.ret.v.t = "table"
            /\ Pairs(World', last'.ret.v.v) = <<>>
            /\ stack' = stack
            /\ \A g \in Handles : alive[g] => VarValue(World', HandleVar(World', g)) = VarValue(World, HandleVar(World, g))]_vars

\* ------------------------------------------------------------------- C36
\* the __object field of the receiver of the call, nil if it has none
ReceiverObject(w, args) ==
    IF args = <<>> \/ args[1].t # "table" THEN Nil
    ELSE LET def == Pairs(w, args[1].v)
             i   == PairIndex(def, ObjectField)
         IN IF i = 0 THEN Nil ELSE def[i][2]

\* the call is obj:f(...) with obj.__object a block made by WrapObjectPtr
WrappedReceiver ==
    /\ last'.op = "CallBoundMemberFunction"
    /\ ReceiverObject(World, last'.case.args).t = "ud"
    /\ ReceiverObject(World, last'.case.args).v >= BlockBase

\* C36: a binding with a dynamically resolved instance, called on a table
\* whose __object is the block made by WrapObjectPtr(p), invokes the member
\* function on p: the trampoline recovers the pointer that was wrapped
C36_RecoversWrappedPointer ==
    [][WrappedReceiver
         => /\ Len(last'.ret.calls) = 1
            /\ last'.ret.calls[1].obj = UdContent(ReceiverObject(World, last'.case.args).v)]_vars

\* the member function is invoked once, on the address of the block itself
C36_InvokedOnBlock ==
    [][WrappedReceiver
         => /\ Len(last'.ret.calls) = 1
            /\ last'.ret.calls[1].obj = ReceiverObject(World, last'.case.args).v
            /\ last'.ret.calls[1].obj \notin ObjectPtrs]_vars

\* ------------------------------------------------------------------- C37
SiteOps == {"CallRetN", "CallRet0", "CallVoidN", "CallVoid0"}

\* the script values of native arguments, from left to right
RECURSIVE Pushed(_)
Pushed(args) == IF args = <<>> THEN <<>> ELSE <<ToLua(Head(args))>> \o Pushed(Tail(args))

\* the last step was a call through a wrapper of a function
SiteCall == last'.op \in SiteOps /\ last'.case.fn # "notfn"

\* C37: a LuaFunction call with n >= 0 arguments makes its protected call
\* with the stack holding, above what was there before, the error handler,
\* the function and the n arguments from left to right; the handler index
\* it passes designates the slot of the error handler; and it asks for n
\* arguments and one result, none for LuaFunction<void>
C37_PcallSite ==
    [][SiteCall =>
         LET c == last'.case
             n == Len(c.args)
             st == c.site.w.stack
         IN /\ Len(st) = Len(c.base) + 2 + n
            /\ SubSeq(st, 1, Len(c.base)) = c.base
            /\ st[Len(c.base) + 1] = ExHandler
            /\ st[Len(c.base) + 2].t \in {"fn", "cfn"}
            /\ SubSeq(st, Len(c.base) + 3, Len(st)) = Pushed(c.args)
            /\ c.site.msgh < 0
            /\ Len(st) + 1 + c.site.msgh = Len(c.base) + 1
            /\ c.site.nargs = n
            /\ c.site.nresults = (IF c.R = "void" THEN 0 ELSE 1)]_vars

\* a LuaFunction<void> was called with three arguments above a value of the
\* application, and the function raised an error that the handler took
C37_Witness ==
    /\ last.op = "CallVoidN" /\ last.case.fn = "error"
    /\ Len(last.case.args) = 3 /\ Len(last.case.base) >= 1
    /\ last.diag = 1 /\ ~aborted

\* ------------------------------------------------------------------- C38
\* the step moved r into another handle
MovedFrom(r) ==
    \E h \in Handles \ {r} :
        /\ alive[r] /\ alive'[h]
        /\ last'.op \in {"MoveConstruct", "MoveAssign"}
        /\ ~aborted'
        /\ World' = Move(IF alive[h] THEN World ELSE Construct(World, h, DefaultLuaState), h, r)

\* C38: after b = std::move(a), a is as after ClearRef(): it holds no slot
\* and no reference count, and its back-reference to the context is what it
\* was, so that what may be done with a cleared handle may be done with a
\* handle that was moved from
C38_MovedFromIsCleared ==
    [][\A r \in Handles :
          MovedFrom(r) => /\ m_reference'[r] = LUA_REFNIL
                          /\ m_pRefCount'[r] = NullPtr
                          /\ m_pState'[r] = m_pState[r]]_vars

\* the handle moved from holds no slot, no reference count and no context
C38_MovedFromHasNoContext ==
    [][\A r \in Handles :
          MovedFrom(r) => /\ m_reference'[r] = LUA_REFNIL
                          /\ m_pRefCount'[r] = NullPtr
                          /\ m_pState'[r] = NullPtr]_vars

\* ------------------------------------------------------------------- C39
\* C39: copy-assigning or move-assigning a handle to itself leaves the
\* slots of the registry, the reference counts, and the context, slot and
\* count block of every handle as they were; no slot is released
C39_SelfAssignment ==
    [][(last'.op \in {"CopyAssign", "MoveAssign"} /\ last'.case = "self")
         => /\ ~aborted'
            /\ UNCHANGED <<m_pState, m_reference, m_pRefCount, m_refCount>>
            /\ UNCHANGED <<registry, freeHead, freeBlocks, allocated, stack>>]_vars

\* a handle that alone owns a slot was move-assigned to itself
C39_Witness ==
    /\ last.op = "MoveAssign" /\ last.case = "self" /\ ~aborted
    /\ Cardinality({h \in Handles : alive[h]}) = 1
    /\ \A h \in Handles :
          alive[h] => /\ m_reference[h] # LUA_REFNIL
                      /\ m_refCount[m_pRefCount[h]] = 1
                      /\ registry[m_reference[h]] = LInt(7)

\* C32: when native code calls a script function through a LuaFunction and the
\* script calls bound native functions that call the script again or iterate
\* a table, one inside the other, the trampolines clear their own frames only:
\* when the outermost call returns, the operand stack of the caller is the one
\* it had before the call, the table and key slots of its open loop included
C32_NestedCallsKeepStack ==
    [][(last'.op = "DeepCall" /\ ~aborted') =>
          /\ stack' = stack
          /\ (iter.alive /\ ~iter.it.m_isAtEnd) =>
                /\ Len(stack') = Len(iter.base) + 2
                /\ SubSeq(stack', Len(stack') - 1, Len(stack'))
                      = <<LTab(iter.table), VarValue(World', iter.it.key)>>]_vars

\* the script function was called with 2 while the application stood in a
\* loop over its table above a value of its own: Again(1), Again(0) and
\* Count() ran one inside the other
C32_Witness ==
    /\ last.op = "DeepCall" /\ ~aborted
    /\ last.case.fn = 5 /\ last.case.n = MaxDepth
    /\ last.case.looping /\ last.case.counted
    /\ iter.alive /\ Len(iter.base) = 1 /\ Len(stack) = 3
====
